---- MODULE Spec2Model ----
(***************************************************************************)
(* The parallel dual module of fusion-blossom                              *)
(* (src/src/dual_module_parallel.rs): the partition planner                *)
(* PartitionInfo::new, the construction DualModuleParallel::new_config,    *)
(* the routing find_active_ancestor and the operations of                  *)
(* `impl DualModuleImpl for DualModuleParallel`, driven by one controller  *)
(* (every operation takes &mut self and joins its fan-out before it        *)
(* returns, so an operation is one step).                                  *)
(*                                                                         *)
(* Vectors are functions on 0..n-1, as the code indexes them.  An          *)
(* Option<usize> is None or the index.  A VertexRange is <<start, end>>.   *)
(***************************************************************************)
EXTENDS Integers, Sequences, FiniteSets, TLC

\* ---------------------------------------------------------------- bounds

\* number of vertices of the decoding graph (initializer.vertex_num)
VertexNum == 5
\* the longest `partitions` list that is tried
MaxPartitions == 3
\* the most dual nodes the primal module has registered at one time
MaxDualNodes == 2
\* the largest dual variable a node is grown to
MaxDual == 1
\* number of vertices of the initializer the planner is run on by itself
PlannerVertexNum == 3
\* the most edges of a decoding graph that new_config is run on by itself
MaxEdges == 2
\* the pool's threads that can hold a unit's lock at the same time
PoolSize == 2
\* the partitions of a module whose operations are followed step by step
LockPartitions == 2

\* ------------------------------------------------------------- utilities

\* Option::None of an Option<usize>, and of an Option<(usize, usize)>
None == -1
NoChildren == <<>>

\* a Vec as a function on 0..n-1
VecLen(v) == Cardinality(DOMAIN v)
VecOfSeq(s) == [i \in 0..(Len(s) - 1) |-> s[i + 1]]
VecPush(v, x) == [i \in 0..VecLen(v) |-> IF i < VecLen(v) THEN v[i] ELSE x]

\* VertexRange (util.rs): [start, end)
RangeStart(r) == r[1]
RangeEnd(r) == r[2]
RangeIter(r) == {v \in RangeStart(r)..(RangeEnd(r) - 1) : TRUE}
RangeContains(r, v) == RangeStart(r) <= v /\ v < RangeEnd(r)
\* VertexRange::sanity_check: a range never ends before it starts
RangeSanityCheck(r) == RangeStart(r) <= RangeEnd(r)
\* a fuse that takes two sane ranges in any order
RangeFuseOkInAnyOrder(a, b) == RangeSanityCheck(a) /\ RangeSanityCheck(b)
\* VertexRange::fuse: only a lower range fuses a higher one; the result is
\* the whole range and the interface range left between the two
RangeFuseOk(a, b) == RangeSanityCheck(a) /\ RangeSanityCheck(b) /\ RangeEnd(a) <= RangeStart(b)
RangeFuse(a, b) == << <<RangeStart(a), RangeEnd(b)>>, <<RangeEnd(a), RangeStart(b)>> >>

\* ------------------------------------------------- PartitionInfo::new

UnitCount(config) == Len(config.partitions) + Len(config.fusions)

\* lines 102-110: at least one partition, each sane and inside [0, vertex_num)
PartitionsAccepted(config, initializer) ==
    /\ Len(config.partitions) > 0
    /\ \A k \in 1..Len(config.partitions) :
          /\ RangeSanityCheck(config.partitions[k])
          /\ RangeEnd(config.partitions[k]) <= initializer.vertex_num

\* a pass that gives the fusion unit the whole range to own (line 123)
FusionStepOwnsWholeRange(config, st, fusion_index) ==
    LET left_index == config.fusions[fusion_index + 1][1]
        right_index == config.fusions[fusion_index + 1][2]
        unit_index == fusion_index + Len(config.partitions)
    IN  IF ~(left_index < unit_index /\ right_index < unit_index)
          THEN [st EXCEPT !.ok = FALSE]
        ELSE IF ~(st.parents[left_index] = None /\ st.parents[right_index] = None)
          THEN [st EXCEPT !.ok = FALSE]
        ELSE IF ~RangeFuseOk(st.whole_ranges[left_index], st.whole_ranges[right_index])
          THEN [st EXCEPT !.ok = FALSE]
        ELSE LET fused == RangeFuse(st.whole_ranges[left_index], st.whole_ranges[right_index])
             IN  [ok |-> TRUE,
                  parents |-> [[st.parents EXCEPT ![left_index] = unit_index]
                                  EXCEPT ![right_index] = unit_index],
                  whole_ranges |-> VecPush(st.whole_ranges, fused[1]),
                  owning_ranges |-> VecPush(st.owning_ranges, fused[1])]

\* a pass without the asserts of lines 116-117
FusionStepFusesTwice(config, st, fusion_index) ==
    LET left_index == config.fusions[fusion_index + 1][1]
        right_index == config.fusions[fusion_index + 1][2]
        unit_index == fusion_index + Len(config.partitions)
    IN  IF ~(left_index < unit_index /\ right_index < unit_index)
          THEN [st EXCEPT !.ok = FALSE]
        ELSE IF ~RangeFuseOk(st.whole_ranges[left_index], st.whole_ranges[right_index])
          THEN [st EXCEPT !.ok = FALSE]
        ELSE LET fused == RangeFuse(st.whole_ranges[left_index], st.whole_ranges[right_index])
             IN  [ok |-> TRUE,
                  parents |-> [[st.parents EXCEPT ![left_index] = unit_index]
                                  EXCEPT ![right_index] = unit_index],
                  whole_ranges |-> VecPush(st.whole_ranges, fused[1]),
                  owning_ranges |-> VecPush(st.owning_ranges, fused[2])]

\* lines 112-124: one pass of the fusion loop over the state
\* st = [ok, parents, whole_ranges, owning_ranges]; ok = FALSE is a failed assert
FusionStep(config, st, fusion_index) ==
    LET left_index == config.fusions[fusion_index + 1][1]
        right_index == config.fusions[fusion_index + 1][2]
        unit_index == fusion_index + Len(config.partitions)
    IN  IF ~(left_index < unit_index /\ right_index < unit_index)
          THEN [st EXCEPT !.ok = FALSE]
        ELSE IF ~(st.parents[left_index] = None /\ st.parents[right_index] = None)
          THEN [st EXCEPT !.ok = FALSE]
        ELSE IF ~RangeFuseOk(st.whole_ranges[left_index], st.whole_ranges[right_index])
          THEN [st EXCEPT !.ok = FALSE]
        ELSE LET fused == RangeFuse(st.whole_ranges[left_index], st.whole_ranges[right_index])
             IN  [ok |-> TRUE,
                  parents |-> [[st.parents EXCEPT ![left_index] = unit_index]
                                  EXCEPT ![right_index] = unit_index],
                  whole_ranges |-> VecPush(st.whole_ranges, fused[1]),
                  owning_ranges |-> VecPush(st.owning_ranges, fused[2])]

RECURSIVE FusionLoop(_, _, _)
FusionLoop(config, st, fusion_index) ==
    IF ~st.ok \/ fusion_index >= Len(config.fusions) THEN st
    ELSE FusionLoop(config, FusionStep(config, st, fusion_index), fusion_index + 1)

\* lines 103-124: the ranges and the parents after the two loops
FusedRanges(config) ==
    FusionLoop(config,
               [ok |-> TRUE,
                parents |-> [i \in 0..(UnitCount(config) - 1) |-> None],
                whole_ranges |-> VecOfSeq(config.partitions),
                owning_ranges |-> VecOfSeq(config.partitions)],
               0)

\* the checks of lines 129-132 alone, without the loop of lines 126-128
RootAcceptedWithoutParents(config, initializer, st) ==
    LET last_unit_index == UnitCount(config) - 1
    IN  /\ RangeStart(st.whole_ranges[last_unit_index]) = 0
        /\ RangeEnd(st.whole_ranges[last_unit_index]) = initializer.vertex_num

\* the loop of lines 126-128 alone, without the checks of lines 129-132
RootAcceptedWithoutRange(config, initializer, st) ==
    \A unit_index \in 0..(UnitCount(config) - 2) : st.parents[unit_index] # None

\* lines 125-132: every unit but the last has a parent, the last covers [0, vertex_num)
RootAccepted(config, initializer, st) ==
    LET last_unit_index == UnitCount(config) - 1
    IN  /\ \A unit_index \in 0..(UnitCount(config) - 2) : st.parents[unit_index] # None
        /\ RangeStart(st.whole_ranges[last_unit_index]) = 0
        /\ RangeEnd(st.whole_ranges[last_unit_index]) = initializer.vertex_num

\* PartitionInfo::new returns (none of its asserts fails)
PartitionInfoAccepted(config, initializer) ==
    /\ PartitionsAccepted(config, initializer)
    /\ FusedRanges(config).ok
    /\ RootAccepted(config, initializer, FusedRanges(config))

\* lines 134-157: children, leaves and descendants, built in fusion order
Children(config, i) ==
    IF i >= Len(config.partitions) THEN config.fusions[i - Len(config.partitions) + 1] ELSE NoChildren

\* descendants that stop at the two children (lines 151-152 alone)
DescendantsOneLevel(config, i) ==
    IF i < Len(config.partitions) THEN {}
    ELSE {Children(config, i)[1], Children(config, i)[2]}

RECURSIVE Descendants(_, _)
Descendants(config, i) ==
    IF i < Len(config.partitions) THEN {}
    ELSE LET left_index == Children(config, i)[1]
             right_index == Children(config, i)[2]
         IN  {left_index, right_index} \cup Descendants(config, left_index)
                                       \cup Descendants(config, right_index)

RECURSIVE Leaves(_, _)
Leaves(config, i) ==
    IF i < Len(config.partitions) THEN <<i>>
    ELSE Leaves(config, Children(config, i)[1]) \o Leaves(config, Children(config, i)[2])

\* lines 158-163: later units overwrite earlier ones; a vertex in no
\* owning_range keeps usize::MAX, written None here
VertexToOwningUnit(config, initializer, owning_ranges) ==
    [vertex_index \in 0..(initializer.vertex_num - 1) |->
        LET owners == {u \in 0..(UnitCount(config) - 1) :
                          RangeContains(owning_ranges[u], vertex_index)}
        IN  IF owners = {} THEN None
            ELSE CHOOSE u \in owners : \A w \in owners : w <= u]

\* PartitionInfo::new, lines 101-168 (for an accepted configuration)
PartitionInfoNew(config, initializer) ==
    LET st == FusedRanges(config)
    IN  [units |-> [i \in 0..(UnitCount(config) - 1) |->
                      [whole_range |-> st.whole_ranges[i],
                       owning_range |-> st.owning_ranges[i],
                       children |-> Children(config, i),
                       parent |-> st.parents[i],
                       leaves |-> Leaves(config, i),
                       descendants |-> Descendants(config, i)]],
         vertex_to_owning_unit |-> VertexToOwningUnit(config, initializer, st.owning_ranges)]

\* --------------------------------------------------------------- inputs

\* the decoding graph: the repetition code on VertexNum vertices, a path
\* 0 - 1 - ... - (VertexNum-1) of weight-2 edges with both ends virtual
\* (the one-dimensional CodeCapacityPlanarCode of the tests)
Initializers ==
    {[vertex_num |-> VertexNum,
      weighted_edges |-> [k \in 1..(VertexNum - 1) |-> <<k - 1, k, 2>>],
      virtual_vertices |-> {0, VertexNum - 1}]}

\* `partitions`: the empty default, or up to MaxPartitions non-empty ranges in
\* increasing order
VertexRanges == {r \in (0..VertexNum) \X (0..VertexNum) : r[1] < r[2]}
PartitionLists ==
    {<<>>} \cup
    {p \in UNION {[1..k -> VertexRanges] : k \in 1..MaxPartitions} :
        \A k \in 1..(Len(p) - 1) : RangeEnd(p[k]) <= RangeStart(p[k + 1])}

\* `fusions` for partition_count partitions: the lists of fusion_count pairs
\* of two different units, each built earlier and in no earlier pair (every
\* other list of pairs of non-empty units fails an assert of lines 114-121)
RECURSIVE FusionListsOfLength(_, _)
FusionListsOfLength(partition_count, fusion_count) ==
    IF fusion_count = 0 THEN {<<>>}
    ELSE LET earlier == 0..(partition_count + fusion_count - 2)
         IN  UNION {
               {Append(f, q) :
                  q \in {q \in earlier \X earlier :
                           /\ q[1] # q[2]
                           /\ \A k \in 1..Len(f) :
                                 {q[1], q[2]} \cap {f[k][1], f[k][2]} = {} }}
               : f \in FusionListsOfLength(partition_count, fusion_count - 1)}
FusionLists(partitions) ==
    IF Len(partitions) <= 1 THEN {<<>>}
    ELSE FusionListsOfLength(Len(partitions), Len(partitions) - 1)

\* a dual node is a syndrome node, named by its vertex; a virtual vertex
\* carries no syndrome
DualNodes == (0..(VertexNum - 1)) \ {0, VertexNum - 1}
\* DualNodePtr::get_representative_vertex
RepresentativeVertex(dual_node) == dual_node
\* DualNodeGrowState
GrowStates == {"grow", "shrink", "stay"}
Lengths == {l \in (0 - MaxDual)..MaxDual : l # 0}

\* ------------------------------------------------------------------ state

VARIABLES
    initializer,     \* DualModuleParallel.initializer
    config,          \* DualModuleParallel.config
    partition_info,  \* DualModuleParallel.partition_info
    units,           \* DualModuleParallel.units, each a DualModuleParallelUnit
    pc,              \* "ready", or "panicked" once an operation has panicked
    last,            \* the operation that ran last: its name, its dual node and
                     \* the units it delegated to
    pre,             \* before that operation: is_active / is_fused of every unit
                     \* and the dual nodes registered
    contained_vertices_vec,   \* new_config's local of line 221, per unit
    partitioned_initializers, \* new_config's local of line 226, per unit
    edge_index,      \* new_config: the edges of the loop of line 287 done so far
    locks,           \* the reader/writer lock of every unit (DualModuleParallelUnitPtr),
                     \* where the steps of an operation are followed one by one
    run              \* the operation in progress and the position of its threads

vars == <<initializer, config, partition_info, units, pc, last, pre,
          contained_vertices_vec, partitioned_initializers, edge_index, locks, run>>

\* no operation is in progress
Idle == [op |-> "idle"]
\* a lock nobody holds
Free == [writer |-> None, readers |-> {}]

\* the locals of new_config
construction_vars == <<contained_vertices_vec, partitioned_initializers, edge_index>>

UnitIndices == DOMAIN units
LeafIndices == {u \in UnitIndices : u < Len(config.partitions)}
FusionIndices == {u \in UnitIndices : u >= Len(config.partitions)}

Flags(us) == [u \in DOMAIN us |-> [is_active |-> us[u].is_active, is_fused |-> us[u].is_fused]]
\* the dual nodes the primal module has added and not removed
RegisteredNodes(us) == UNION {DOMAIN us[u].serial_module.nodes : u \in DOMAIN us}
Before(us) == [flags |-> Flags(us), registered |-> RegisteredNodes(us)]

\* --------------------------------------- the serial dual module of a unit
\* (dual_module_serial.rs): the dual nodes registered in it, each with its
\* grow state and dual variable, and whether an edge modifier is loaded

SerialNew == [nodes |-> <<>>, edge_modified |-> FALSE]
SerialClear(serial) == SerialNew
SerialAddDualNode(serial, dual_node) ==
    [serial EXCEPT !.nodes =
        [n \in DOMAIN serial.nodes \cup {dual_node} |->
            IF n = dual_node THEN [grow_state |-> "grow", dual |-> 0] ELSE serial.nodes[n]]]
SerialRemoveBlossom(serial, dual_node) ==
    [serial EXCEPT !.nodes = [n \in DOMAIN serial.nodes \ {dual_node} |-> serial.nodes[n]]]
SerialSetGrowState(serial, dual_node, grow_state) ==
    IF dual_node \in DOMAIN serial.nodes
    THEN [serial EXCEPT !.nodes[dual_node].grow_state = grow_state]
    ELSE serial
SerialGrowDualNode(serial, dual_node, length) ==
    IF dual_node \in DOMAIN serial.nodes
    THEN [serial EXCEPT !.nodes[dual_node].dual = @ + length]
    ELSE serial
SerialGrow(serial, length) ==
    [serial EXCEPT !.nodes =
        [n \in DOMAIN serial.nodes |->
            [serial.nodes[n] EXCEPT !.dual =
                CASE serial.nodes[n].grow_state = "grow" -> @ + length
                  [] serial.nodes[n].grow_state = "shrink" -> @ - length
                  [] OTHER -> @]]]
SerialLoadEdgeModifier(serial) == [serial EXCEPT !.edge_modified = TRUE]

\* ----------------------------------------------------------- construction

\* DualModuleParallelUnitPtr::new_wrapper
new_wrapper(dual_module, partition_unit_info) ==
    [is_active |-> TRUE,
     is_fused |-> FALSE,
     whole_range |-> partition_unit_info.whole_range,
     owning_range |-> partition_unit_info.owning_range,
     serial_module |-> dual_module,
     children |-> NoChildren,
     parent |-> None]

\* new_config, lines 206-208: an empty `partitions` is the one partition [0, V)
DefaultedConfig(cfg, init) ==
    IF Len(cfg.partitions) = 0
    THEN [cfg EXCEPT !.partitions = << <<0, init.vertex_num>> >>]
    ELSE cfg

\* lines 288-290 without the assert_ne of line 288
EdgeEndpointsAcceptedWithSelfLoops(init, edge) ==
    edge[1] < init.vertex_num /\ edge[2] < init.vertex_num

\* new_config, lines 288-290: no self loop and both endpoints below vertex_num
EdgeEndpointsAccepted(init, edge) ==
    /\ edge[1] # edge[2]
    /\ edge[1] < init.vertex_num
    /\ edge[2] < init.vertex_num

\* lines 288-290 alone, without the assert of lines 294-297
EdgeAcceptedAcrossPartitions(init, info, edge) == EdgeEndpointsAccepted(init, edge)

\* new_config, lines 287-297: no self loop, both endpoints valid, and the two
\* owning units equal or one an ancestor of the other
EdgeAccepted(init, info, edge) ==
    LET i == edge[1]
        j == edge[2]
    IN  /\ EdgeEndpointsAccepted(init, edge)
        /\ LET i_unit_index == info.vertex_to_owning_unit[i]
               j_unit_index == info.vertex_to_owning_unit[j]
           IN  \/ j_unit_index \in info.units[i_unit_index].descendants
               \/ i_unit_index \in info.units[j_unit_index].descendants
               \/ i_unit_index = j_unit_index

\* new_config returns: PartitionInfo::new does, one partition has no fusion
\* (line 214), and with more partitions every edge passes lines 288-297
NewConfigAccepted(cfg, init) ==
    LET c == DefaultedConfig(cfg, init)
    IN  /\ PartitionInfoAccepted(c, init)
        /\ IF Len(c.partitions) = 1
           THEN Len(c.fusions) = 0
           ELSE \A k \in 1..Len(init.weighted_edges) :
                   EdgeAccepted(init, PartitionInfoNew(c, init), init.weighted_edges[k])

\* new_config, lines 210-218 and 330-338: one unit per partition unit info
NewUnits(info) == [u \in DOMAIN info.units |-> new_wrapper(SerialNew, info.units[u])]

Init ==
    \E init \in Initializers, partitions \in PartitionLists :
      \E fusions \in FusionLists(partitions) :
        LET cfg == [partitions |-> partitions, fusions |-> fusions]
        IN  /\ NewConfigAccepted(cfg, init)
            /\ initializer = init
            /\ config = DefaultedConfig(cfg, init)
            /\ partition_info = PartitionInfoNew(DefaultedConfig(cfg, init), init)
            /\ units = NewUnits(PartitionInfoNew(DefaultedConfig(cfg, init), init))
            /\ pc = "ready"
            /\ last = [op |-> "new_config", dual_node |-> None, units |-> {}]
            /\ pre = Before(NewUnits(PartitionInfoNew(DefaultedConfig(cfg, init), init)))
            /\ contained_vertices_vec = <<>>
            /\ partitioned_initializers = <<>>
            /\ edge_index = 0
            /\ locks = [u \in DOMAIN PartitionInfoNew(DefaultedConfig(cfg, init), init).units |-> Free]
            /\ run = Idle

\* ----------------------------------------------------------------- clear

\* a clear that forgets line 382 (is_fused = false)
ClearUnitKeepsFused(unit, unit_idx, cfg) ==
    [unit EXCEPT !.serial_module = SerialClear(@),
                 !.is_active = unit_idx < Len(cfg.partitions)]

\* a clear that flips is_fused instead of resetting it
ClearUnitFlipsFused(unit, unit_idx, cfg) ==
    [unit EXCEPT !.serial_module = SerialClear(@),
                 !.is_fused = ~@,
                 !.is_active = unit_idx < Len(cfg.partitions)]

\* clear, lines 380-383: what the worker of unit unit_idx does
ClearUnit(unit, unit_idx, cfg) ==
    [unit EXCEPT !.serial_module = SerialClear(@),
                 !.is_fused = FALSE,
                 !.is_active = unit_idx < Len(cfg.partitions)]

clear ==
    /\ pc = "ready"
    /\ units' = [unit_idx \in UnitIndices |-> ClearUnit(units[unit_idx], unit_idx, config)]
    /\ last' = [op |-> "clear", dual_node |-> None, units |-> UnitIndices]
    /\ pre' = Before(units)
    /\ UNCHANGED <<locks, run, contained_vertices_vec, partitioned_initializers, edge_index, initializer, config, partition_info, pc>>

\* ---------------------------------------------------------------- routing

\* find_active_ancestor, lines 355-363: the walk up the units' own parent
\* links; `unwrap` of a missing parent panics (ok = FALSE)
RECURSIVE WalkToActive(_, _)
WalkToActive(us, owning_unit_index) ==
    IF us[owning_unit_index].is_active
      THEN [ok |-> TRUE, unit |-> owning_unit_index]
    ELSE IF us[owning_unit_index].parent = None
      THEN [ok |-> FALSE, unit |-> owning_unit_index]
    ELSE WalkToActive(us, us[owning_unit_index].parent)

\* find_active_ancestor, lines 350-365; indexing `units` with the usize::MAX
\* of a vertex without owning unit panics as well
find_active_ancestor(us, info, dual_node) ==
    LET owning_unit_index == info.vertex_to_owning_unit[RepresentativeVertex(dual_node)]
    IN  IF owning_unit_index = None
        THEN [ok |-> FALSE, unit |-> None]
        ELSE WalkToActive(us, owning_unit_index)

\* ---------------------------------------------- operations on one dual node

\* the dual variable of a registered node
DualOf(us, dual_node) ==
    LET u == CHOOSE u \in DOMAIN us : dual_node \in DOMAIN us[u].serial_module.nodes
    IN  us[u].serial_module.nodes[dual_node].dual

\* impl DualModuleImpl for DualModuleParallelUnit: every method hands the call
\* to the unit's serial module
UnitAddDualNode(unit, dual_node) ==
    [unit EXCEPT !.serial_module = SerialAddDualNode(@, dual_node)]
UnitRemoveBlossom(unit, dual_node) ==
    [unit EXCEPT !.serial_module = SerialRemoveBlossom(@, dual_node)]
UnitSetGrowState(unit, dual_node, grow_state) ==
    [unit EXCEPT !.serial_module = SerialSetGrowState(@, dual_node, grow_state)]
UnitGrowDualNode(unit, dual_node, length) ==
    [unit EXCEPT !.serial_module = SerialGrowDualNode(@, dual_node, length)]
UnitGrow(unit, length) ==
    [unit EXCEPT !.serial_module = SerialGrow(@, length)]
UnitLoadEdgeModifier(unit) ==
    [unit EXCEPT !.serial_module = SerialLoadEdgeModifier(@)]

\* the body shared by the five per-node methods, lines 390-443:
\* find_active_ancestor, then the write lock, then the unit's method;
\* delegated[u] is unit u after its method has run
PerNode(op, dual_node, delegated) ==
    LET found == find_active_ancestor(units, partition_info, dual_node)
    IN  /\ pc = "ready"
        /\ IF found.ok
           THEN /\ units' = [units EXCEPT ![found.unit] = delegated[found.unit]]
                /\ pc' = "ready"
                /\ last' = [op |-> op, dual_node |-> dual_node, units |-> {found.unit}]
           ELSE /\ units' = units
                /\ pc' = "panicked"
                /\ last' = [op |-> op, dual_node |-> dual_node, units |-> {}]
        /\ pre' = Before(units)
        /\ UNCHANGED <<locks, run, contained_vertices_vec, partitioned_initializers, edge_index, initializer, config, partition_info>>

add_dual_node(dual_node) ==
    /\ dual_node \notin RegisteredNodes(units)
    /\ Cardinality(RegisteredNodes(units)) < MaxDualNodes
    /\ PerNode("add_dual_node", dual_node, [u \in UnitIndices |-> UnitAddDualNode(units[u], dual_node)])

remove_blossom(dual_node) ==
    /\ dual_node \in RegisteredNodes(units)
    /\ PerNode("remove_blossom", dual_node, [u \in UnitIndices |-> UnitRemoveBlossom(units[u], dual_node)])

set_grow_state(dual_node, grow_state) ==
    /\ dual_node \in RegisteredNodes(units)
    /\ PerNode("set_grow_state", dual_node,
               [u \in UnitIndices |-> UnitSetGrowState(units[u], dual_node, grow_state)])

compute_maximum_update_length_dual_node(dual_node) ==
    /\ dual_node \in RegisteredNodes(units)
    /\ PerNode("compute_maximum_update_length_dual_node", dual_node, [u \in UnitIndices |-> units[u]])

grow_dual_node(dual_node, length) ==
    /\ dual_node \in RegisteredNodes(units)
    /\ DualOf(units, dual_node) + length \in 0..MaxDual
    /\ PerNode("grow_dual_node", dual_node,
               [u \in UnitIndices |-> UnitGrowDualNode(units[u], dual_node, length)])

\* ------------------------------------------------- operations on all units

ActiveUnits(us) == {u \in DOMAIN us : us[u].is_active}

\* compute_maximum_update_length, lines 424-428: only an active unit is asked
compute_maximum_update_length ==
    /\ pc = "ready"
    /\ last' = [op |-> "compute_maximum_update_length", dual_node |-> None,
                units |-> ActiveUnits(units)]
    /\ pre' = Before(units)
    /\ UNCHANGED <<locks, run, contained_vertices_vec, partitioned_initializers, edge_index, initializer, config, partition_info, units, pc>>

\* a grow whose worker carries the flag reset of clear's worker
GrowUnitUnfuses(unit, length) ==
    IF ~unit.is_active THEN [unit EXCEPT !.is_fused = FALSE] ELSE UnitGrow(unit, length)

\* a grow whose worker does not skip an inactive unit
GrowUnitOfAnyUnit(unit, length) == UnitGrow(unit, length)

\* grow, lines 447-451: what the worker of one unit does
GrowUnit(unit, length) ==
    IF ~unit.is_active THEN unit ELSE UnitGrow(unit, length)

grow(length) ==
    /\ pc = "ready"
    /\ length > 0
    /\ \A u \in ActiveUnits(units) : \A n \in DOMAIN units[u].serial_module.nodes :
          SerialGrow(units[u].serial_module, length).nodes[n].dual \in 0..MaxDual
    /\ units' = [u \in UnitIndices |-> GrowUnit(units[u], length)]
    /\ last' = [op |-> "grow", dual_node |-> None, units |-> ActiveUnits(units)]
    /\ pre' = Before(units)
    /\ UNCHANGED <<locks, run, contained_vertices_vec, partitioned_initializers, edge_index, initializer, config, partition_info, pc>>

\* a load_edge_modifier whose worker wakes the unit it skips
LoadEdgeModifierUnitActivates(unit) ==
    IF ~unit.is_active THEN [unit EXCEPT !.is_active = TRUE] ELSE UnitLoadEdgeModifier(unit)

\* load_edge_modifier, lines 457-461: what the worker of one unit does
LoadEdgeModifierUnit(unit) ==
    IF ~unit.is_active THEN unit ELSE UnitLoadEdgeModifier(unit)

\* the edge modifier is loaded before the syndrome is
load_edge_modifier ==
    /\ pc = "ready"
    /\ RegisteredNodes(units) = {}
    /\ units' = [u \in UnitIndices |-> LoadEdgeModifierUnit(units[u])]
    /\ last' = [op |-> "load_edge_modifier", dual_node |-> None, units |-> ActiveUnits(units)]
    /\ pre' = Before(units)
    /\ UNCHANGED <<locks, run, contained_vertices_vec, partitioned_initializers, edge_index, initializer, config, partition_info, pc>>

\* snapshot, lines 473-483: reads every unit
snapshot ==
    /\ pc = "ready"
    /\ last' = [op |-> "snapshot", dual_node |-> None, units |-> UnitIndices]
    /\ pre' = Before(units)
    /\ UNCHANGED <<locks, run, contained_vertices_vec, partitioned_initializers, edge_index, initializer, config, partition_info, units, pc>>

\* ---------------------------------------------------------------- fusion
\* The fusion of two children into their parent (static_fuse_all of
\* mwpm_solver.rs line 249) after the design: legal when both children are
\* active and unfused, it marks both fused and moves the active status from
\* them to the parent; an illegal attempt is fatal.

\* a legality check that looks at the left child only
FuseLegalLeftOnly(us, info, parent_index) ==
    LET left_index == info.units[parent_index].children[1]
    IN  us[left_index].is_active /\ ~us[left_index].is_fused

FuseLegal(us, info, parent_index) ==
    LET left_index == info.units[parent_index].children[1]
        right_index == info.units[parent_index].children[2]
    IN  /\ us[left_index].is_active /\ ~us[left_index].is_fused
        /\ us[right_index].is_active /\ ~us[right_index].is_fused

\* a fusion that sets the three flags and leaves the children active
FuseUnitsChildrenStayActive(us, info, parent_index) ==
    LET left_index == info.units[parent_index].children[1]
        right_index == info.units[parent_index].children[2]
    IN  [u \in DOMAIN us |->
            IF u \in {left_index, right_index}
              THEN [us[u] EXCEPT !.is_fused = TRUE]
            ELSE IF u = parent_index
              THEN [us[u] EXCEPT !.is_active = TRUE]
            ELSE us[u]]

FuseUnits(us, info, parent_index) ==
    LET left_index == info.units[parent_index].children[1]
        right_index == info.units[parent_index].children[2]
    IN  [u \in DOMAIN us |->
            IF u \in {left_index, right_index}
              THEN [us[u] EXCEPT !.is_fused = TRUE, !.is_active = FALSE]
            ELSE IF u = parent_index
              THEN [us[u] EXCEPT !.is_active = TRUE]
            ELSE us[u]]

fuse(parent_index) ==
    /\ pc = "ready"
    /\ IF FuseLegal(units, partition_info, parent_index)
       THEN /\ units' = FuseUnits(units, partition_info, parent_index)
            /\ pc' = "ready"
       ELSE /\ units' = units
            /\ pc' = "panicked"
    /\ last' = [op |-> "fuse", dual_node |-> None, units |-> {parent_index}]
    /\ pre' = Before(units)
    /\ UNCHANGED <<locks, run, contained_vertices_vec, partitioned_initializers, edge_index, initializer, config, partition_info>>

\* ------------------------------------------------------------------- next

Next ==
    \/ clear
    \/ \E dual_node \in DualNodes : add_dual_node(dual_node)
    \/ \E dual_node \in DualNodes : remove_blossom(dual_node)
    \/ \E dual_node \in DualNodes, grow_state \in GrowStates :
          set_grow_state(dual_node, grow_state)
    \/ \E dual_node \in DualNodes : compute_maximum_update_length_dual_node(dual_node)
    \/ \E dual_node \in DualNodes, length \in Lengths : grow_dual_node(dual_node, length)
    \/ compute_maximum_update_length
    \/ \E length \in Lengths : grow(length)
    \/ load_edge_modifier
    \/ snapshot
    \/ \E parent_index \in FusionIndices : fuse(parent_index)

Spec == Init /\ [][Next]_vars

\* ----------------------------------------------------------- the tree

\* the units above unit u in the partition tree
RECURSIVE Ancestors(_, _)
Ancestors(info, u) ==
    IF info.units[u].parent = None THEN {}
    ELSE {info.units[u].parent} \cup Ancestors(info, info.units[u].parent)

\* the root-to-leaf path through leaf
PathOf(leaf) == {leaf} \cup Ancestors(partition_info, leaf)

OwningUnit(dual_node) == partition_info.vertex_to_owning_unit[RepresentativeVertex(dual_node)]

PerNodeOps == {"add_dual_node", "remove_blossom", "set_grow_state",
               "compute_maximum_update_length_dual_node", "grow_dual_node"}

LeftOf(parent_index) == partition_info.units[parent_index].children[1]
RightOf(parent_index) == partition_info.units[parent_index].children[2]

\* ------------------------------------------------------------- properties

\* C1: in every reachable state, on every root-to-leaf path of the partition
\* tree at most one unit has is_active = true and is_fused = false.
C1_ActiveUnfusedUnique ==
    \A leaf \in LeafIndices :
        Cardinality({u \in PathOf(leaf) : units[u].is_active /\ ~units[u].is_fused}) <= 1

\* C2: in every reachable state, on every root-to-leaf path at most one unit
\* has is_active = true, whatever its is_fused.
C2_ActiveUnique ==
    \A leaf \in LeafIndices :
        Cardinality({u \in PathOf(leaf) : units[u].is_active}) <= 1

\* C3: in every reachable state, for every dual node with its representative
\* vertex in [0, V), find_active_ancestor returns without failure a unit that
\* is active and is the vertex's owning unit or one of its ancestors.
C3_FindActiveAncestorSucceeds ==
    pc = "ready" =>
        \A dual_node \in DualNodes :
            LET found == find_active_ancestor(units, partition_info, dual_node)
            IN  /\ found.ok
                /\ units[found.unit].is_active
                /\ found.unit \in {OwningUnit(dual_node)}
                                    \cup Ancestors(partition_info, OwningUnit(dual_node))

\* C4: every per-node operation is delegated to exactly one unit, an active
\* unit that is the owning unit of the node's representative vertex or an
\* ancestor of it, and leaves the serial dual state of every other unit unchanged.
C4_PerNodeDelegatesToOne ==
    [][last'.op \in PerNodeOps =>
        \E u \in UnitIndices :
            /\ last'.units = {u}
            /\ units[u].is_active
            /\ u \in {OwningUnit(last'.dual_node)}
                        \cup Ancestors(partition_info, OwningUnit(last'.dual_node))
            /\ \A w \in UnitIndices \ {u} :
                   units'[w].serial_module = units[w].serial_module]_vars

\* C5: after clear() has returned, from any state, every unit has
\* is_fused = false, every leaf unit is active, every fusion unit is inactive,
\* and every unit's dual state is reset.
C5_ClearResets ==
    last.op = "clear" =>
        \A u \in UnitIndices :
            /\ ~units[u].is_fused
            /\ units[u].is_active <=> (u < Len(config.partitions))
            /\ units[u].serial_module = SerialNew

\* C5 witness: clear() has run on a state with a fused unit, an active fusion
\* unit and a registered dual node.
C5_Witness ==
    /\ last.op = "clear"
    /\ \E u \in UnitIndices : pre.flags[u].is_fused
    /\ \E u \in FusionIndices : pre.flags[u].is_active
    /\ pre.registered # {}

\* C6: right after new_config has returned for a configuration with at least
\* one fusion, before any clear(), every leaf unit is active and every fusion
\* unit is inactive and unfused.
C6_FreshFusionUnitsInactive ==
    (last.op = "new_config" /\ FusionIndices # {}) =>
        /\ \A u \in LeafIndices : units[u].is_active
        /\ \A u \in FusionIndices : ~units[u].is_active /\ ~units[u].is_fused

C8_FuseFlags ==
    (last.op = "fuse" /\ pc = "ready") =>
        \A parent_index \in last.units :
            /\ units[LeftOf(parent_index)].is_fused
            /\ units[RightOf(parent_index)].is_fused
            /\ ~units[LeftOf(parent_index)].is_active
            /\ ~units[RightOf(parent_index)].is_active
            /\ units[parent_index].is_active
            /\ \A u \in UnitIndices \ {parent_index, LeftOf(parent_index), RightOf(parent_index)} :
                   Flags(units)[u] = pre.flags[u]

\* C8 witness: a fusion was accepted in a tree that has units besides the
\* parent and its two children, one of them active.
C8_Witness ==
    /\ last.op = "fuse"
    /\ pc = "ready"
    /\ \E parent_index \in last.units :
          \E u \in UnitIndices \ {parent_index, LeftOf(parent_index), RightOf(parent_index)} :
             units[u].is_active

\* a fusion of P has completed and P has neither been fused further nor cleared
FusionCompleted(parent_index) ==
    /\ units[parent_index].is_active
    /\ ~units[parent_index].is_fused
    /\ units[LeftOf(parent_index)].is_fused
    /\ units[RightOf(parent_index)].is_fused

C10_FusedNeverReverts ==
    [][\A u \in UnitIndices : units[u].is_fused => units'[u].is_fused]_vars

\* C10 as amended: once is_fused of a unit is true it stays true through every
\* operation other than clear().
C10_FusedUntilClear ==
    [][last'.op # "clear" =>
        \A u \in UnitIndices : units[u].is_fused => units'[u].is_fused]_vars

\* C10 witness: a global grow has run over units that were fused before it.
C10_Witness ==
    /\ last.op = "grow"
    /\ \E u \in UnitIndices : pre.flags[u].is_fused /\ units[u].is_fused

\* Whenever find_active_ancestor succeeds, the per-node operation changes the
\* serial dual state of the unit it found and of no other, and no flag.
PerNodeFrame ==
    [][(last'.op \in PerNodeOps /\ pc' = "ready") =>
        \E u \in UnitIndices :
            /\ last'.units = {u}
            /\ find_active_ancestor(units, partition_info, last'.dual_node) = [ok |-> TRUE, unit |-> u]
            /\ units[u].is_active
            /\ u \in {OwningUnit(last'.dual_node)}
                        \cup Ancestors(partition_info, OwningUnit(last'.dual_node))
            /\ Flags(units') = Flags(units)
            /\ \A w \in UnitIndices \ {u} : units'[w] = units[w]]_vars

\* C11: in every reachable state, whenever a fusion unit has is_active = true,
\* both of its children have is_active = false.
C11_ActiveFusionUnitChildrenInactive ==
    \A parent_index \in FusionIndices :
        units[parent_index].is_active =>
            /\ ~units[LeftOf(parent_index)].is_active
            /\ ~units[RightOf(parent_index)].is_active

\* ------------------------------------------- the merged update length

\* GroupMaxUpdateLength (dual_module.rs): a set of conflicts, or the least
\* growth bound when there is no conflict; WeightMax is the bound of the
\* empty group
WeightMax == MaxDual + 1
Min(S) == CHOOSE x \in S : \A y \in S : x <= y
GroupMaxUpdateLengthNew == [conflicts |-> {}, bound |-> WeightMax]
GroupIsEmpty(group) == group.conflicts = {} /\ group.bound = WeightMax
\* extend: the union of the conflicts, the least bound where neither has one
GroupExtend(group, other) ==
    IF group.conflicts = {} /\ other.conflicts = {}
    THEN [conflicts |-> {}, bound |-> Min({group.bound, other.bound})]
    ELSE [conflicts |-> group.conflicts \cup other.conflicts, bound |-> WeightMax]

\* the serial module's compute_maximum_update_length: a growing node may grow
\* until its dual variable is MaxDual, a shrinking one until it is 0, and a
\* node that can no longer move is a conflict
SerialSlack(node) ==
    CASE node.grow_state = "grow" -> MaxDual - node.dual
      [] node.grow_state = "shrink" -> node.dual
      [] OTHER -> WeightMax
SerialComputeMaximumUpdateLength(serial) ==
    LET conflicts == {n \in DOMAIN serial.nodes : SerialSlack(serial.nodes[n]) = 0}
    IN  IF conflicts # {}
        THEN [conflicts |-> conflicts, bound |-> WeightMax]
        ELSE [conflicts |-> {},
              bound |-> Min({SerialSlack(serial.nodes[n]) : n \in DOMAIN serial.nodes}
                              \cup {WeightMax})]

\* DualModuleParallelUnit::compute_maximum_update_length, lines 542-544
UnitComputeMaximumUpdateLength(unit) == SerialComputeMaximumUpdateLength(unit.serial_module)

\* the orders in which the workers of the units in S can finish
RECURSIVE Orders(_)
Orders(S) ==
    IF S = {} THEN {<<>>}
    ELSE UNION {{<<u>> \o order : order \in Orders(S \ {u})} : u \in S}

\* a worker that answers for an inactive unit as well
LocalResultsOfAllUnits(us, order) ==
    [k \in 1..Len(order) |-> UnitComputeMaximumUpdateLength(us[order[k]])]

\* compute_maximum_update_length, lines 424-428: the results of the workers
\* that finished in `order`; the worker of an inactive unit returns None
LocalResults(us, order) ==
    LET active == SelectSeq(order, LAMBDA u : us[u].is_active)
    IN  [k \in 1..Len(active) |-> UnitComputeMaximumUpdateLength(us[active[k]])]

\* lines 429-432: the results extended one after the other into a new group
RECURSIVE ExtendAll(_, _)
ExtendAll(group_max_update_length, results) ==
    IF results = <<>> THEN group_max_update_length
    ELSE ExtendAll(GroupExtend(group_max_update_length, Head(results)), Tail(results))

\* what compute_maximum_update_length returns when its workers finish in `order`
ComputeMaximumUpdateLengthResult(us, order) ==
    ExtendAll(GroupMaxUpdateLengthNew, LocalResults(us, order))

\* the extend-merge of the local results of the units in S: the union of
\* their conflicts, or the least of their bounds when none has a conflict
ExtendMerge(us, S) ==
    LET conflicts == UNION {UnitComputeMaximumUpdateLength(us[u]).conflicts : u \in S}
    IN  IF conflicts # {}
        THEN [conflicts |-> conflicts, bound |-> WeightMax]
        ELSE [conflicts |-> {},
              bound |-> Min({UnitComputeMaximumUpdateLength(us[u]).bound : u \in S}
                              \cup {WeightMax})]

\* C12: the global compute_maximum_update_length returns the extend-merge of
\* the local results of exactly the active units, whatever the order in which
\* the workers finish.
C12_MergesActiveUnits ==
    last.op = "compute_maximum_update_length" =>
        \A order \in Orders(UnitIndices) :
            ComputeMaximumUpdateLengthResult(units, order) = ExtendMerge(units, ActiveUnits(units))

\* C12 witness: it has run while an active unit and an inactive unit both hold
\* a dual node, the inactive one with a conflict and the active one without.
C12_Witness ==
    /\ last.op = "compute_maximum_update_length"
    /\ \E u \in ActiveUnits(units), w \in UnitIndices \ ActiveUnits(units) :
          /\ ~GroupIsEmpty(UnitComputeMaximumUpdateLength(units[u]))
          /\ UnitComputeMaximumUpdateLength(units[u]).conflicts = {}
          /\ UnitComputeMaximumUpdateLength(units[w]).conflicts # {}

\* C13: the global grow(length) and load_edge_modifier apply the operation
\* exactly once to every unit that is active when they are called, and leave
\* the serial dual state of every inactive unit unchanged.
C13_FanOutToActiveUnits ==
    [][/\ last'.op = "grow" =>
            \E length \in Lengths :
                \A u \in UnitIndices :
                    units'[u].serial_module =
                        IF units[u].is_active
                        THEN SerialGrow(units[u].serial_module, length)
                        ELSE units[u].serial_module
       /\ last'.op = "load_edge_modifier" =>
            \A u \in UnitIndices :
                units'[u].serial_module =
                    IF units[u].is_active
                    THEN SerialLoadEdgeModifier(units[u].serial_module)
                    ELSE units[u].serial_module]_vars

\* C13 witness: a global grow has run while an active unit and an inactive unit
\* both held a growing dual node; the first has grown and the second has not.
C13_Witness ==
    /\ last.op = "grow"
    /\ \E u \in last.units, w \in UnitIndices \ last.units :
          /\ \E n \in DOMAIN units[u].serial_module.nodes :
                /\ units[u].serial_module.nodes[n].grow_state = "grow"
                /\ units[u].serial_module.nodes[n].dual = MaxDual
          /\ \E n \in DOMAIN units[w].serial_module.nodes :
                /\ units[w].serial_module.nodes[n].grow_state = "grow"
                /\ units[w].serial_module.nodes[n].dual = 0

\* C14: clear() is idempotent: a clear() that runs right after a clear() leaves
\* every unit's is_active, is_fused and dual state as the first one left them.
C14_ClearIdempotent ==
    [][(last.op = "clear" /\ last'.op = "clear") => units' = units]_vars

\* C14 witness: clear() has run on a state that already had the flags of a
\* cleared state and no dual node.
C14_Witness ==
    /\ last.op = "clear"
    /\ FusionIndices # {}
    /\ pre.flags = Flags(units)
    /\ pre.registered = {}

\* ------------------------------------------- PartitionInfo::new on its own
\* The planner run on every configuration, the rejected ones included.  It
\* reads `partitions` and `fusions` one element at a time, as the loops of
\* lines 105 and 112 do, so a list is chosen element by element as it is read
\* and nothing is chosen behind the element that fails an assert.  The
\* variables hold: config, the lists as far as they are read; pc, the loop
\* the planner is in, "planned" once it has returned and "panicked" once an
\* assert has failed; partition_info, the PartitionInfo returned.

\* the initializer: PartitionInfo::new reads vertex_num only
PlannerInitializers ==
    {[vertex_num |-> PlannerVertexNum, weighted_edges |-> <<>>, virtual_vertices |-> {}]}
\* every pair of usize up to one past vertex_num is tried as a range
PlannerRanges == (0..(PlannerVertexNum + 1)) \X (0..(PlannerVertexNum + 1))
\* the most fusions that are read
MaxFusions == MaxPartitions - 1
\* every pair of usize up to one past the index of the unit being built
PlannerFusions(cfg) == (0..(UnitCount(cfg) + 1)) \X (0..(UnitCount(cfg) + 1))

NoPartitionInfo == [units |-> <<>>, vertex_to_owning_unit |-> <<>>]

PlannerInit ==
    /\ initializer \in PlannerInitializers
    /\ config = [partitions |-> <<>>, fusions |-> <<>>]
    /\ partition_info = NoPartitionInfo
    /\ units = <<>>
    /\ pc = "partitions"
    /\ last = [op |-> "PartitionInfo::new", dual_node |-> None, units |-> {}]
    /\ pre = Before(<<>>)
    /\ contained_vertices_vec = <<>>
    /\ partitioned_initializers = <<>>
    /\ edge_index = 0
    /\ locks = <<>>
    /\ run = Idle

\* lines 105-110: one more partition is read and checked
ReadPartition(partition) ==
    /\ pc = "partitions"
    /\ Len(config.partitions) < MaxPartitions
    /\ config' = [config EXCEPT !.partitions = Append(@, partition)]
    /\ pc' = IF PartitionsAccepted(config', initializer) THEN "partitions" ELSE "panicked"
    /\ UNCHANGED <<locks, run, contained_vertices_vec, partitioned_initializers, edge_index, initializer, partition_info, units, last, pre>>

\* lines 102 and 111: the list of partitions ends; an empty one is refused
EndOfPartitions ==
    /\ pc = "partitions"
    /\ pc' = IF PartitionsAccepted(config, initializer) THEN "fusions" ELSE "panicked"
    /\ UNCHANGED <<locks, run, contained_vertices_vec, partitioned_initializers, edge_index, initializer, config, partition_info, units, last, pre>>

\* lines 112-124: one more fusion is read, checked and applied
ReadFusion(fusion) ==
    /\ pc = "fusions"
    /\ Len(config.fusions) < MaxFusions
    /\ config' = [config EXCEPT !.fusions = Append(@, fusion)]
    /\ pc' = IF FusedRanges(config').ok THEN "fusions" ELSE "panicked"
    /\ UNCHANGED <<locks, run, contained_vertices_vec, partitioned_initializers, edge_index, initializer, partition_info, units, last, pre>>

\* lines 125-168: the list of fusions ends; the root is checked and the
\* PartitionInfo is built and returned
ReturnPartitionInfo ==
    /\ pc = "fusions"
    /\ IF RootAccepted(config, initializer, FusedRanges(config))
       THEN /\ pc' = "planned"
            /\ partition_info' = PartitionInfoNew(config, initializer)
       ELSE /\ pc' = "panicked"
            /\ partition_info' = partition_info
    /\ UNCHANGED <<locks, run, contained_vertices_vec, partitioned_initializers, edge_index, initializer, config, units, last, pre>>

PlannerNext ==
    \/ \E partition \in PlannerRanges : ReadPartition(partition)
    \/ EndOfPartitions
    \/ \E fusion \in PlannerFusions(config) : ReadFusion(fusion)
    \/ ReturnPartitionInfo

PlannerSpec == PlannerInit /\ [][PlannerNext]_vars

\* the units of the PartitionInfo returned
PlannedUnits == DOMAIN partition_info.units

\* C16: for every configuration that PartitionInfo::new accepts, the
\* owning_range of the units are pairwise disjoint and their union is exactly
\* [0, V); so every vertex v of [0, V) has vertex_to_owning_unit[v] equal to
\* the one unit whose owning_range contains v, and no entry keeps usize::MAX.
C16_OwningRangesPartitionVertices ==
    pc = "planned" =>
        /\ \A u, w \in PlannedUnits :
              u # w => RangeIter(partition_info.units[u].owning_range)
                         \cap RangeIter(partition_info.units[w].owning_range) = {}
        /\ UNION {RangeIter(partition_info.units[u].owning_range) : u \in PlannedUnits}
              = 0..(initializer.vertex_num - 1)
        /\ \A v \in 0..(initializer.vertex_num - 1) :
              /\ partition_info.vertex_to_owning_unit[v] # None
              /\ \A u \in PlannedUnits :
                    RangeContains(partition_info.units[u].owning_range, v)
                        <=> u = partition_info.vertex_to_owning_unit[v]

\* C16 witness: a planned tree of two levels in which a fusion unit owns an
\* interface vertex.
C16_Witness ==
    /\ pc = "planned"
    /\ Len(config.fusions) >= 2
    /\ \E u \in PlannedUnits :
          /\ partition_info.units[u].children # NoChildren
          /\ RangeIter(partition_info.units[u].owning_range) # {}

\* the units whose children pair names unit u
ParentsOf(u) ==
    {p \in PlannedUnits : /\ partition_info.units[p].children # NoChildren
                          /\ u \in {partition_info.units[p].children[1],
                                    partition_info.units[p].children[2]}}

\* C17: for every configuration that PartitionInfo::new accepts, the unit tree
\* has exactly one root, which is the last unit and has parent = None; every
\* other unit has exactly one parent, and the children pair of that parent
\* contains the unit.
C17_OneRootOneParent ==
    pc = "planned" =>
        LET last_unit_index == Cardinality(PlannedUnits) - 1
        IN  /\ {u \in PlannedUnits : partition_info.units[u].parent = None} = {last_unit_index}
            /\ ParentsOf(last_unit_index) = {}
            /\ \A u \in PlannedUnits \ {last_unit_index} :
                  ParentsOf(u) = {partition_info.units[u].parent}

\* C17 witness: an accepted configuration of three partitions and two fusions,
\* five units in a tree of two levels.
C17_Witness ==
    /\ pc = "planned"
    /\ Cardinality(PlannedUnits) = 5
    /\ \E u \in PlannedUnits : Cardinality(partition_info.units[u].descendants) = 4

\* the units named by the children pair of unit u
ChildrenOf(u) ==
    IF partition_info.units[u].children = NoChildren THEN {}
    ELSE {partition_info.units[u].children[1], partition_info.units[u].children[2]}

\* the units reached from the set S by following children links any number of times
RECURSIVE ChildrenClosure(_)
ChildrenClosure(S) ==
    LET next == S \cup UNION {ChildrenOf(u) : u \in S}
    IN  IF next = S THEN S ELSE ChildrenClosure(next)

\* C18: for every unit u that PartitionInfo::new produces, descendants(u) is
\* exactly the set of units reached from u by following children links one or
\* more times: empty for a leaf, and never containing u itself.
C18_DescendantsAreChildrenClosure ==
    pc = "planned" =>
        \A u \in PlannedUnits :
            /\ partition_info.units[u].descendants = ChildrenClosure(ChildrenOf(u))
            /\ partition_info.units[u].children = NoChildren
                  => partition_info.units[u].descendants = {}
            /\ u \notin partition_info.units[u].descendants

\* C18 witness: a produced unit whose descendants include a child of a child.
C18_Witness ==
    /\ pc = "planned"
    /\ \E u \in PlannedUnits :
          \E c \in ChildrenOf(u) :
              \E g \in ChildrenOf(c) :
                  /\ g \notin ChildrenOf(u)
                  /\ g \in partition_info.units[u].descendants

\* two ranges that have a vertex in common
RangesOverlap(a, b) == RangeIter(a) \cap RangeIter(b) # {}

\* C19: construction aborts whenever the partitions list given to
\* PartitionInfo::new is empty, contains a range that does not lie within
\* [0, V), or contains two ranges that overlap; that is, PartitionInfo::new
\* only returns for a non-empty list of ranges inside [0, V) no two of which
\* have a vertex in common.
C19_BadPartitionsAbort ==
    pc = "planned" =>
        /\ Len(config.partitions) > 0
        /\ \A k \in 1..Len(config.partitions) :
              /\ RangeStart(config.partitions[k]) <= RangeEnd(config.partitions[k])
              /\ RangeEnd(config.partitions[k]) <= initializer.vertex_num
        /\ \A j, k \in 1..Len(config.partitions) :
              j # k => ~RangesOverlap(config.partitions[j], config.partitions[k])

\* C19 witness: every partition lies within [0, V), the first fusion names two
\* different partitions that overlap, and the construction has aborted on it.
C19_Witness ==
    /\ pc = "panicked"
    /\ PartitionsAccepted(config, initializer)
    /\ Len(config.fusions) = 1
    /\ LET l == config.fusions[1][1]
           r == config.fusions[1][2]
       IN  /\ l < Len(config.partitions) /\ r < Len(config.partitions) /\ l # r
           /\ RangesOverlap(config.partitions[l + 1], config.partitions[r + 1])

\* the units that the fusions before fusion k (counted from 0) use as children
EarlierChildren(k) ==
    UNION {{config.fusions[j + 1][1], config.fusions[j + 1][2]} : j \in 0..(k - 1)}

\* C20: construction aborts whenever some fusion k = (l, r) names a unit index
\* that is not smaller than |partitions| + k, or names a unit that an earlier
\* fusion has already used as a child; that is, PartitionInfo::new only
\* returns when every fusion names two earlier units that no earlier fusion
\* has named.
C20_BadFusionsAbort ==
    pc = "planned" =>
        \A k \in 0..(Len(config.fusions) - 1) :
            LET l == config.fusions[k + 1][1]
                r == config.fusions[k + 1][2]
            IN  /\ l < Len(config.partitions) + k
                /\ r < Len(config.partitions) + k
                /\ l \notin EarlierChildren(k)
                /\ r \notin EarlierChildren(k)

\* C20 witness: the second fusion names earlier units only, one of them a
\* child of the first fusion, and the construction has aborted on it.
C20_Witness ==
    /\ pc = "panicked"
    /\ Len(config.fusions) = 2
    /\ config.fusions[2][1] < Len(config.partitions) + 1
    /\ config.fusions[2][2] < Len(config.partitions) + 1
    /\ {config.fusions[2][1], config.fusions[2][2]} \cap EarlierChildren(1) # {}

\* the fusions (counted from 1) that name unit u as a child
FusionsNaming(u) ==
    {k \in 1..Len(config.fusions) : u \in {config.fusions[k][1], config.fusions[k][2]}}

\* C21: construction aborts unless every unit except the last-built one has
\* been fused exactly once and the last-built unit has whole_range equal to
\* [0, V); that is, whenever PartitionInfo::new returns, each unit but the last
\* is named by exactly one fusion and the whole_range of the last is [0, V).
C21_UnfusedOrUncoveringAbort ==
    pc = "planned" =>
        LET last_unit_index == UnitCount(config) - 1
        IN  /\ \A u \in 0..(last_unit_index - 1) : Cardinality(FusionsNaming(u)) = 1
            /\ partition_info.units[last_unit_index].whole_range
                  = <<0, initializer.vertex_num>>

\* C21 witness: both loops have passed, two different units are fused and
\* every unit but the last has a parent, yet the last unit does not cover [0, V) and the construction has
\* aborted on the checks of lines 130-132.
C21_Witness ==
    /\ pc = "panicked"
    /\ PartitionsAccepted(config, initializer)
    /\ FusedRanges(config).ok
    /\ Len(config.fusions) >= 1
    /\ config.fusions[1][1] # config.fusions[1][2]
    /\ \A u \in 0..(UnitCount(config) - 2) : FusedRanges(config).parents[u] # None
    /\ FusedRanges(config).whole_ranges[UnitCount(config) - 1] # <<0, initializer.vertex_num>>

\* ------------------------------------------------ new_config, step by step

\* CompleteGraph of line 220 (complete_graph.rs): the peers that
\* complete_graph.vertices[vertex_index].edges lists for a vertex
Peers(init, vertex_index) ==
    {init.weighted_edges[k][2] :
        k \in {k \in 1..Len(init.weighted_edges) : init.weighted_edges[k][1] = vertex_index}}
    \cup
    {init.weighted_edges[k][1] :
        k \in {k \in 1..Len(init.weighted_edges) : init.weighted_edges[k][2] = vertex_index}}

\* the elements of a set of integers in increasing order, as a range iterates
RECURSIVE SeqOfSet(_)
SeqOfSet(S) == IF S = {} THEN <<>> ELSE <<Min(S)>> \o SeqOfSet(S \ {Min(S)})

\* a walk that counts the vertices already mirrored as the unit's own, in
\* both placements
MirrorVerticesByContained(cfg, init, info, unit_index, parent_index, contained_vertices) ==
    {vertex_index \in RangeIter(info.units[parent_index].owning_range) :
        \E peer_index \in Peers(init, vertex_index) : peer_index \in contained_vertices}

\* a walk that mirrors the whole owning range of a parent adjacent to the
\* unit's own vertices, and no other
MirrorVerticesByOwningRange(cfg, init, info, unit_index, parent_index, contained_vertices) ==
    IF \E vertex_index \in RangeIter(info.units[parent_index].owning_range) :
          \E peer_index \in Peers(init, vertex_index) :
              RangeContains(info.units[unit_index].owning_range, peer_index)
    THEN RangeIter(info.units[parent_index].owning_range)
    ELSE {}

\* a walk that mirrors nothing
MirrorVerticesOfNoParent(cfg, init, info, unit_index, parent_index, contained_vertices) == {}

\* lines 235-271: the vertices of the parent's owning_range that one step of
\* the walk mirrors into the unit
MirrorVertices(cfg, init, info, unit_index, parent_index, contained_vertices) ==
    LET owning_range == info.units[unit_index].owning_range
        parent_owning == RangeIter(info.units[parent_index].owning_range)
    IN  IF cfg.edges_in_fusion_unit
        THEN {vertex_index \in parent_owning :
                \E peer_index \in Peers(init, vertex_index) :
                    RangeContains(owning_range, peer_index)}
        ELSE IF \E vertex_index \in parent_owning :
                   \E peer_index \in Peers(init, vertex_index) :
                       peer_index \in contained_vertices
             THEN parent_owning
             ELSE {}

\* lines 234-276: the walk from current_index to the root; acc holds the
\* contained_vertices and the interfaces collected so far
RECURSIVE AncestorWalk(_, _, _, _, _, _)
AncestorWalk(cfg, init, info, unit_index, current_index, acc) ==
    LET parent_index == info.units[current_index].parent
    IN  IF parent_index = None THEN acc
        ELSE LET mirror == MirrorVertices(cfg, init, info, unit_index, parent_index,
                                          acc.contained_vertices)
                 mirror_vertices == [k \in 1..Cardinality(mirror) |->
                                        <<SeqOfSet(mirror)[k],
                                          SeqOfSet(mirror)[k] \in init.virtual_vertices>>]
             IN  AncestorWalk(cfg, init, info, unit_index, parent_index,
                    [contained_vertices |-> acc.contained_vertices \cup mirror,
                     interfaces |-> IF mirror = {} THEN acc.interfaces
                                    ELSE Append(acc.interfaces,
                                                <<parent_index, mirror_vertices>>)])

\* lines 227-276 for one unit: its contained vertices and its interfaces
PlanUnit(cfg, init, info, unit_index) ==
    AncestorWalk(cfg, init, info, unit_index, unit_index,
                 [contained_vertices |-> RangeIter(info.units[unit_index].owning_range),
                  interfaces |-> <<>>])

\* lines 221 and 277: contained_vertices_vec after the map of line 226
ContainedVerticesVec(cfg, init, info) ==
    [unit_index \in DOMAIN info.units |->
        PlanUnit(cfg, init, info, unit_index).contained_vertices]

\* lines 226-285: partitioned_initializers before any edge is assigned
PartitionedInitializers(cfg, init, info) ==
    [unit_index \in DOMAIN info.units |->
        [vertex_num |-> init.vertex_num,
         owning_range |-> info.units[unit_index].owning_range,
         weighted_edges |-> <<>>,
         interfaces |-> PlanUnit(cfg, init, info, unit_index).interfaces,
         virtual_vertices |-> RangeIter(info.units[unit_index].owning_range)
                                 \cap init.virtual_vertices]]

\* partitioned_initializers[unit_index].weighted_edges.push(edge)
PushEdge(pis, unit_index, edge) ==
    [pis EXCEPT ![unit_index].weighted_edges = Append(@, edge)]

\* a dfs_add that gives the edge to every leaf it reaches
RECURSIVE dfs_add_to_every_leaf(_, _, _, _, _, _)
dfs_add_to_every_leaf(unit_index, cfg, info, edge, contained, st) ==
    IF unit_index >= Len(cfg.partitions)
      THEN LET left_index == info.units[unit_index].children[1]
               right_index == info.units[unit_index].children[2]
           IN  dfs_add_to_every_leaf(right_index, cfg, info, edge, contained,
                   dfs_add_to_every_leaf(left_index, cfg, info, edge, contained, st))
      ELSE [st EXCEPT !.partitioned_initializers = PushEdge(@, unit_index, edge)]

\* lines 310-324: dfs_add; st.ok turns false when the assert of line 319 fails
RECURSIVE dfs_add(_, _, _, _, _, _)
dfs_add(unit_index, cfg, info, edge, contained, st) ==
    IF ~st.ok THEN st
    ELSE IF unit_index >= Len(cfg.partitions)
      THEN LET left_index == info.units[unit_index].children[1]
               right_index == info.units[unit_index].children[2]
           IN  dfs_add(right_index, cfg, info, edge, contained,
                       dfs_add(left_index, cfg, info, edge, contained, st))
      ELSE LET contain_i == edge[1] \in contained[unit_index]
               contain_j == edge[2] \in contained[unit_index]
           IN  IF contain_i # contain_j THEN [st EXCEPT !.ok = FALSE]
               ELSE IF contain_i
                 THEN [st EXCEPT !.partitioned_initializers = PushEdge(@, unit_index, edge)]
                 ELSE st

\* lines 294-298
AncestorUnitIndex(info, edge) ==
    LET i_unit_index == info.vertex_to_owning_unit[edge[1]]
        j_unit_index == info.vertex_to_owning_unit[edge[2]]
        is_i_ancestor == j_unit_index \in info.units[i_unit_index].descendants
    IN  IF is_i_ancestor THEN i_unit_index ELSE j_unit_index
\* the ancestor taken for the descendant
DescendantUnitIndexIsAncestor(info, edge) == AncestorUnitIndex(info, edge)
\* line 299
DescendantUnitIndex(info, edge) ==
    LET i_unit_index == info.vertex_to_owning_unit[edge[1]]
        j_unit_index == info.vertex_to_owning_unit[edge[2]]
        is_i_ancestor == j_unit_index \in info.units[i_unit_index].descendants
    IN  IF is_i_ancestor THEN j_unit_index ELSE i_unit_index

\* lines 287-328 for one edge: the asserts of lines 288-297, then the edge is
\* pushed to the descendant unit, or to the leaves below it that contain it
AssignEdgeResult(cfg, init, info, contained, pis, edge) ==
    IF ~EdgeAccepted(init, info, edge)
      THEN [ok |-> FALSE, partitioned_initializers |-> pis]
    ELSE IF cfg.edges_in_fusion_unit
      THEN [ok |-> TRUE,
            partitioned_initializers |-> PushEdge(pis, DescendantUnitIndex(info, edge), edge)]
    ELSE IF AncestorUnitIndex(info, edge) < Len(cfg.partitions)
      THEN [ok |-> TRUE,
            partitioned_initializers |-> PushEdge(pis, DescendantUnitIndex(info, edge), edge)]
    ELSE dfs_add(DescendantUnitIndex(info, edge), cfg, info, edge, contained,
                 [ok |-> TRUE, partitioned_initializers |-> pis])

\* DualModuleSerial::new (dual_module_serial.rs), called at line 215 with the
\* whole initializer: validation rule 4 of the planner
SerialNewAccepted(init) ==
    \A k \in 1..Len(init.weighted_edges) : EdgeEndpointsAccepted(init, init.weighted_edges[k])

\* the decoding graphs tried: every list of up to MaxEdges edges of weight 2
\* between two of the vertices 0..VertexNum, so self loops and the endpoint
\* vertex_num, which is no vertex, are among them
NewConfigEdges == {<<i, j, 2>> : i \in 0..VertexNum, j \in 0..VertexNum}
NewConfigInitializers ==
    {[vertex_num |-> VertexNum,
      weighted_edges |-> weighted_edges,
      virtual_vertices |-> {0, VertexNum - 1}] :
        weighted_edges \in UNION {[1..n -> NewConfigEdges] : n \in 0..MaxEdges}}

\* the configurations tried: those that PartitionInfo::new accepts for
\* VertexNum vertices, with either edge placement
NewConfigConfigs ==
    UNION {{[partitions |-> partitions,
             fusions |-> fusions,
             edges_in_fusion_unit |-> edges_in_fusion_unit] :
               fusions \in {f \in FusionLists(partitions) :
                               PartitionInfoAccepted(
                                   DefaultedConfig([partitions |-> partitions, fusions |-> f],
                                                   [vertex_num |-> VertexNum]),
                                   [vertex_num |-> VertexNum])},
               edges_in_fusion_unit \in BOOLEAN}
           : partitions \in PartitionLists}

\* new_config is entered (line 200)
NewConfigInit ==
    /\ config \in NewConfigConfigs
    /\ initializer \in NewConfigInitializers
    /\ partition_info = NoPartitionInfo
    /\ units = <<>>
    /\ pc = "new_config"
    /\ last = [op |-> "new_config", dual_node |-> None, units |-> {}]
    /\ pre = Before(<<>>)
    /\ contained_vertices_vec = <<>>
    /\ partitioned_initializers = <<>>
    /\ edge_index = 0
    /\ locks = <<>>
    /\ run = Idle

\* lines 206-212: the default partition, then PartitionInfo::new
BuildPartitionInfo ==
    /\ pc = "new_config"
    /\ config' = DefaultedConfig(config, initializer)
    /\ IF PartitionInfoAccepted(config', initializer)
       THEN /\ partition_info' = PartitionInfoNew(config', initializer)
            /\ pc' = IF Len(config'.partitions) = 1 THEN "single" ELSE "partitioned"
       ELSE /\ partition_info' = partition_info
            /\ pc' = "panicked"
    /\ UNCHANGED <<locks, run, initializer, units, last, pre, construction_vars>>

\* lines 213-218: one partition, one unit over a serial module of the whole graph
SinglePartition ==
    /\ pc = "single"
    /\ IF Len(config.fusions) = 0 /\ SerialNewAccepted(initializer)
       THEN /\ units' = NewUnits(partition_info)
            /\ pc' = "ready"
       ELSE /\ units' = units
            /\ pc' = "panicked"
    /\ UNCHANGED <<locks, run, initializer, config, partition_info, last, pre, construction_vars>>

\* lines 220-285: the contained vertices and the interfaces of every unit
DiscoverInterfaces ==
    /\ pc = "partitioned"
    /\ contained_vertices_vec' = ContainedVerticesVec(config, initializer, partition_info)
    /\ partitioned_initializers' = PartitionedInitializers(config, initializer, partition_info)
    /\ pc' = "edges"
    /\ UNCHANGED <<locks, run, initializer, config, partition_info, units, last, pre, edge_index>>

\* lines 287-328: one pass of the loop over initializer.weighted_edges
AssignEdge ==
    /\ pc = "edges"
    /\ edge_index < Len(initializer.weighted_edges)
    /\ LET result == AssignEdgeResult(config, initializer, partition_info,
                                      contained_vertices_vec, partitioned_initializers,
                                      initializer.weighted_edges[edge_index + 1])
       IN  IF result.ok
           THEN /\ partitioned_initializers' = result.partitioned_initializers
                /\ edge_index' = edge_index + 1
                /\ pc' = "edges"
           ELSE /\ partitioned_initializers' = partitioned_initializers
                /\ edge_index' = edge_index
                /\ pc' = "panicked"
    /\ UNCHANGED <<locks, run, initializer, config, partition_info, units, last, pre,
                   contained_vertices_vec>>

\* lines 330-331: the scope of the unit build is entered; run.done holds the
\* indices whose closure has run
BuildUnits ==
    /\ pc = "edges"
    /\ edge_index = Len(initializer.weighted_edges)
    /\ pc' = "build"
    /\ run' = [op |-> "build", done |-> {}]
    /\ UNCHANGED <<locks, initializer, config, partition_info, units, last, pre,
                   construction_vars>>

\* a collect that appends the units as their closures finish
CollectSlotInOrderOfCompletion(us, unit_index) == VecLen(us)

\* collect_into_vec, line 337: the item of index unit_index is written to
\* slot unit_index of `units`
CollectSlot(us, unit_index) == unit_index

\* lines 331-337: the closure of one index, run by the pool at any time
BuildUnit(unit_index) ==
    /\ pc = "build"
    /\ unit_index \in DOMAIN partition_info.units
    /\ unit_index \notin run.done
    /\ units' = [slot \in DOMAIN units \cup {CollectSlot(units, unit_index)} |->
                    IF slot = CollectSlot(units, unit_index)
                    THEN new_wrapper(SerialNew, partition_info.units[unit_index])
                    ELSE units[slot]]
    /\ run' = [run EXCEPT !.done = @ \cup {unit_index}]
    /\ UNCHANGED <<locks, initializer, config, partition_info, pc, last, pre,
                   construction_vars>>

\* lines 338-346: the scope ends when every closure has run, and the module
\* is returned
CollectUnits ==
    /\ pc = "build"
    /\ run.done = DOMAIN partition_info.units
    /\ pc' = "ready"
    /\ run' = Idle
    /\ UNCHANGED <<locks, initializer, config, partition_info, units, last, pre,
                   construction_vars>>

NewConfigNext ==
    \/ BuildPartitionInfo
    \/ SinglePartition
    \/ DiscoverInterfaces
    \/ AssignEdge
    \/ BuildUnits
    \/ \E unit_index \in 0..(2 * MaxPartitions - 2) : BuildUnit(unit_index)
    \/ CollectUnits

NewConfigSpec == NewConfigInit /\ [][NewConfigNext]_vars

\* the edge the loop of line 287 is at, or has aborted on
CurrentEdge == initializer.weighted_edges[edge_index + 1]

\* the unit that owns a vertex
OwnerOf(vertex_index) == partition_info.vertex_to_owning_unit[vertex_index]

\* two units that are equal or lie on one root-to-leaf path
OnOnePath(a, b) ==
    \/ a = b
    \/ a \in Ancestors(partition_info, b)
    \/ b \in Ancestors(partition_info, a)

\* the edge's owning units are equal or on one root-to-leaf path
EdgeOnOnePath(edge) == OnOnePath(OwnerOf(edge[1]), OwnerOf(edge[2]))

\* new_config is in, or has aborted in, the loop over the edges (line 287)
InEdgeLoop == pc \in {"edges", "panicked"} /\ Cardinality(DOMAIN partition_info.units) > 1

\* C22: with more than one partition, construction aborts for every edge
\* (i, j) whose endpoint owning units are neither equal nor in an
\* ancestor/descendant relation, and it succeeds on this check for every edge
\* whose owning units are equal or on one root-to-leaf path: every edge the
\* loop has passed is on one path, and an abort at an edge with valid endpoints
\* and owners on one path can only be the both-or-neither assert of the
\* placement without fusion-unit edges.
C22_CrossPartitionEdgesAbort ==
    /\ (pc \in {"edges", "ready"} /\ Cardinality(DOMAIN partition_info.units) > 1)
          => \A k \in 1..edge_index : EdgeOnOnePath(initializer.weighted_edges[k])
    /\ (pc = "panicked" /\ InEdgeLoop /\ EdgeEndpointsAccepted(initializer, CurrentEdge))
          => (EdgeOnOnePath(CurrentEdge) => ~config.edges_in_fusion_unit)

\* C22 witness: after one edge has been assigned, construction has aborted on
\* an edge between two valid vertices owned by two independent units.
C22_Witness ==
    /\ pc = "panicked"
    /\ InEdgeLoop
    /\ edge_index = 1
    /\ EdgeEndpointsAccepted(initializer, CurrentEdge)
    /\ ~EdgeOnOnePath(CurrentEdge)

CountIn(edges, edge) == Cardinality({k \in 1..Len(edges) : edges[k] = edge})

\* the edges the loop of line 287 has assigned so far
AssignedEdges == SubSeq(initializer.weighted_edges, 1, edge_index)

\* of the two owning units of an edge, the one below the other in the tree
\* (the common unit when they are equal), by parent links
LowerOwner(edge) ==
    IF OwnerOf(edge[1]) \in Ancestors(partition_info, OwnerOf(edge[2]))
    THEN OwnerOf(edge[2])
    ELSE OwnerOf(edge[1])

\* C24: with edges_in_fusion_unit = true and more than one partition, every
\* input edge is placed in exactly one unit's edge list, that of the
\* descendant among the two endpoint owning units (the common unit when they
\* are equal), so the multiset union of the per-unit edge lists equals the
\* input edge multiset: each unit holds an edge as many times as the input
\* does if it is that unit, and not at all otherwise, and holds nothing else.
C24_EdgesInDescendantUnit ==
    (/\ pc \in {"edges", "ready"}
     /\ config.edges_in_fusion_unit
     /\ Cardinality(DOMAIN partition_info.units) > 1)
    => \A unit_index \in DOMAIN partitioned_initializers :
          /\ \A k \in 1..edge_index :
                CountIn(partitioned_initializers[unit_index].weighted_edges,
                        initializer.weighted_edges[k])
                  = IF unit_index = LowerOwner(initializer.weighted_edges[k])
                    THEN CountIn(AssignedEdges, initializer.weighted_edges[k])
                    ELSE 0
          /\ \A k \in 1..Len(partitioned_initializers[unit_index].weighted_edges) :
                CountIn(AssignedEdges, partitioned_initializers[unit_index].weighted_edges[k]) > 0

\* C24 witness: the module is built with edges_in_fusion_unit = true over two
\* copies of one edge whose endpoints are owned by a fusion unit and by a
\* leaf below it.
C24_Witness ==
    /\ pc = "ready"
    /\ config.edges_in_fusion_unit
    /\ Cardinality(DOMAIN partition_info.units) > 1
    /\ edge_index = 2
    /\ initializer.weighted_edges[1] = initializer.weighted_edges[2]
    /\ OwnerOf(initializer.weighted_edges[1][1]) # OwnerOf(initializer.weighted_edges[1][2])
    /\ Len(partitioned_initializers[LowerOwner(initializer.weighted_edges[1])].weighted_edges) = 2

\* validation rules 4 and 5 hold for every edge of the decoding graph
GraphPassesValidation ==
    \A k \in 1..Len(initializer.weighted_edges) :
        /\ EdgeEndpointsAccepted(initializer, initializer.weighted_edges[k])
        /\ EdgeOnOnePath(initializer.weighted_edges[k])

\* C30: with edges_in_fusion_unit = false, for every configuration and graph
\* that passes validation rules 1-5, every leaf reached while descending from
\* the descendant unit of an edge contains either both endpoints of the edge
\* or neither, so the both-or-neither assertion in dfs_add never fails:
\* construction never aborts in the edge loop over a graph that passes
\* validation.
C30_BothOrNeitherNeverFails ==
    (pc = "panicked" /\ InEdgeLoop /\ ~config.edges_in_fusion_unit)
        => ~GraphPassesValidation

\* the units whose edge list holds the edge
UnitsHolding(edge) ==
    {unit_index \in DOMAIN partitioned_initializers :
        CountIn(partitioned_initializers[unit_index].weighted_edges, edge) > 0}

\* the leaf units whose accumulated contained-vertex set holds both endpoints
LeavesContaining(edge) ==
    {unit_index \in DOMAIN contained_vertices_vec :
        /\ unit_index < Len(config.partitions)
        /\ edge[1] \in contained_vertices_vec[unit_index]
        /\ edge[2] \in contained_vertices_vec[unit_index]}

\* C25: with edges_in_fusion_unit = false, for every accepted configuration
\* and every input edge (i, j), the set of units whose edge list contains the
\* edge is exactly the set of leaf units whose accumulated contained-vertex
\* set contains both i and j; no fusion unit and no other leaf receives it.
C25_EdgesInContainingLeaves ==
    (/\ pc = "ready"
     /\ ~config.edges_in_fusion_unit
     /\ Cardinality(DOMAIN partition_info.units) > 1)
    => /\ \A k \in 1..Len(initializer.weighted_edges) :
             UnitsHolding(initializer.weighted_edges[k])
                = LeavesContaining(initializer.weighted_edges[k])
       /\ \A unit_index \in DOMAIN partitioned_initializers :
             \A k \in 1..Len(partitioned_initializers[unit_index].weighted_edges) :
                 /\ unit_index < Len(config.partitions)
                 /\ CountIn(initializer.weighted_edges,
                            partitioned_initializers[unit_index].weighted_edges[k]) > 0

\* C25 witness: the module is built with edges_in_fusion_unit = false and an
\* edge between two fusion units is held by a leaf and not by another leaf
\* below the same fusion unit.
C25_Witness ==
    /\ pc = "ready"
    /\ ~config.edges_in_fusion_unit
    /\ \E k \in 1..Len(initializer.weighted_edges) :
          /\ OwnerOf(initializer.weighted_edges[k][1]) >= Len(config.partitions)
          /\ OwnerOf(initializer.weighted_edges[k][2]) >= Len(config.partitions)
          /\ OwnerOf(initializer.weighted_edges[k][1]) # OwnerOf(initializer.weighted_edges[k][2])
          /\ UnitsHolding(initializer.weighted_edges[k]) # {}
          /\ \E leaf \in partition_info.units[LowerOwner(initializer.weighted_edges[k])].descendants :
                leaf \notin UnitsHolding(initializer.weighted_edges[k])

\* ------------------------------------ operations called on a unit directly
\* impl DualModuleImpl for DualModuleParallelUnit, lines 511-558: `units` is
\* a public field of the module, and each unit's methods can be called on the
\* unit itself. No method reads is_fused or is_active; each takes the write
\* lock of the unit's serial module and hands the call over.

UnitOps == {"unit.clear", "unit.add_dual_node", "unit.grow",
            "unit.compute_maximum_update_length"}

\* the frame shared by the direct calls: unit_index becomes `after`
UnitCall(op, unit_index, dual_node, after) ==
    /\ pc = "ready"
    /\ units' = [units EXCEPT ![unit_index] = after]
    /\ last' = [op |-> op, dual_node |-> dual_node, units |-> {unit_index}]
    /\ pre' = Before(units)
    /\ UNCHANGED <<locks, run, contained_vertices_vec, partitioned_initializers, edge_index, initializer, config, partition_info, pc>>

\* DualModuleParallelUnit::clear, lines 520-522
unit_clear(unit_index) ==
    UnitCall("unit.clear", unit_index, None,
             [units[unit_index] EXCEPT !.serial_module = SerialClear(@)])

\* DualModuleParallelUnit::add_dual_node, lines 525-528
unit_add_dual_node(unit_index, dual_node) ==
    /\ dual_node \notin RegisteredNodes(units)
    /\ Cardinality(RegisteredNodes(units)) < MaxDualNodes
    /\ UnitCall("unit.add_dual_node", unit_index, dual_node,
                UnitAddDualNode(units[unit_index], dual_node))

\* DualModuleParallelUnit::compute_maximum_update_length, lines 542-544
unit_compute_maximum_update_length(unit_index) ==
    UnitCall("unit.compute_maximum_update_length", unit_index, None, units[unit_index])

\* DualModuleParallelUnit::grow, lines 550-552
unit_grow(unit_index, length) ==
    /\ length > 0
    /\ \A n \in DOMAIN units[unit_index].serial_module.nodes :
          SerialGrow(units[unit_index].serial_module, length).nodes[n].dual \in 0..MaxDual
    /\ UnitCall("unit.grow", unit_index, None, UnitGrow(units[unit_index], length))

\* the module with its units reached directly as well as through clear and
\* fusion
UnitNext ==
    \/ clear
    \/ \E parent_index \in FusionIndices : fuse(parent_index)
    \/ \E unit_index \in UnitIndices : unit_clear(unit_index)
    \/ \E unit_index \in UnitIndices, dual_node \in DualNodes :
          unit_add_dual_node(unit_index, dual_node)
    \/ \E unit_index \in UnitIndices : unit_compute_maximum_update_length(unit_index)
    \/ \E unit_index \in UnitIndices, length \in Lengths : unit_grow(unit_index, length)

UnitSpec == Init /\ [][UnitNext]_vars

\* C26: an operation called directly on a unit whose is_fused flag is true
\* is a fatal usage error and leaves that unit's serial dual module as it was.
C26_FusedUnitCallAborts ==
    [][\A unit_index \in UnitIndices :
          (/\ last'.op \in UnitOps
           /\ last'.units = {unit_index}
           /\ units[unit_index].is_fused)
          => (/\ pc' = "panicked"
              /\ units'[unit_index].serial_module = units[unit_index].serial_module)]_vars

\* ------------------------------------------ the operations, step by step
\* Every method of DualModuleParallel takes `&mut self` (snapshot `&self`),
\* so one operation runs at a time, submitted by the controller. Inside it
\* the closure of thread_pool.scope runs on a pool thread and par_iter hands
\* one task per unit to the pool. locks[u] is the lock of units[u].


\* the thread that runs the closure of thread_pool.scope
MainThread == 0 - 2
\* the task of unit u in a par_iter is thread u
Threads == {MainThread} \cup UnitIndices

\* write() is granted when nobody holds the lock, read_recursive() whenever
\* no writer does
LockWriteFree(ls, u) == ls[u].writer = None /\ ls[u].readers = {}
LockReadFree(ls, u) == ls[u].writer = None
AcquireWrite(ls, u, t) == [ls EXCEPT ![u].writer = t]
AcquireRead(ls, u, t) == [ls EXCEPT ![u].readers = @ \cup {t}]
ReleaseWrite(ls, u) == [ls EXCEPT ![u].writer = None]
ReleaseRead(ls, u, t) == [ls EXCEPT ![u].readers = @ \ {t}]
\* the units whose lock thread t holds
HeldBy(ls, t) == {u \in DOMAIN ls : ls[u].writer = t \/ t \in ls[u].readers}

\* a panic unwinds the thread, which drops its guards, and goes on to the
\* controller: the operation `op` has not returned
Panic(op) ==
    /\ pc' = "panicked"
    /\ run' = [op |-> "aborted", aborted |-> op]

\* ---- the five per-node methods, lines 390-443

\* what the call of the unit's method does, once its write lock is held
PerNodeEffect(op, unit, dual_node, grow_state, length) ==
    CASE op = "add_dual_node" -> UnitAddDualNode(unit, dual_node)
      [] op = "remove_blossom" -> UnitRemoveBlossom(unit, dual_node)
      [] op = "set_grow_state" -> UnitSetGrowState(unit, dual_node, grow_state)
      [] op = "grow_dual_node" -> UnitGrowDualNode(unit, dual_node, length)
      [] OTHER -> unit

\* the calls the primal module makes: a node is added once, and grown within
\* the bound last reported
PerNodeCall(op, dual_node, length) ==
    CASE op = "add_dual_node" ->
            /\ dual_node \notin RegisteredNodes(units)
            /\ Cardinality(RegisteredNodes(units)) < MaxDualNodes
      [] op = "grow_dual_node" ->
            /\ dual_node \in RegisteredNodes(units)
            /\ DualOf(units, dual_node) + length \in 0..MaxDual
      [] OTHER -> dual_node \in RegisteredNodes(units)

\* the controller calls a per-node method: lines 352-354
SubmitPerNode ==
    \E op \in PerNodeOps, dual_node \in DualNodes, grow_state \in GrowStates, length \in Lengths :
        /\ pc = "ready"
        /\ run = Idle
        /\ PerNodeCall(op, dual_node, length)
        /\ run' = [op |-> op, dual_node |-> dual_node,
                   grow_state |-> IF op = "set_grow_state" THEN grow_state ELSE "stay",
                   length |-> IF op = "grow_dual_node" THEN length ELSE 0,
                   owning_unit_ptr |-> partition_info.vertex_to_owning_unit[RepresentativeVertex(dual_node)],
                   at |-> "loop"]
        /\ UNCHANGED <<initializer, config, partition_info, units, pc, last, pre,
                       construction_vars, locks>>

\* find_active_ancestor, line 356: owning_unit_ptr.read_recursive()
WalkRead ==
    /\ pc = "ready"
    /\ run.op \in PerNodeOps
    /\ run.at = "loop"
    /\ LockReadFree(locks, run.owning_unit_ptr)
    /\ locks' = AcquireRead(locks, run.owning_unit_ptr, MainThread)
    /\ run' = [run EXCEPT !.at = "reading"]
    /\ UNCHANGED <<initializer, config, partition_info, units, pc, last, pre, construction_vars>>

\* a walk that moves to the parent with the guard of line 356 still alive
WalkKeepsReadLock(ls, unit_index) == ls

\* line 361, drop(owning_unit), and the end of the guard's scope at the break
\* of line 358
WalkRelease(ls, unit_index) == ReleaseRead(ls, unit_index, MainThread)

\* a walk that takes the first unit it reads, active or not
WalkStopsAtFirstUnit(unit) == TRUE

\* line 357: if owning_unit.is_active
WalkStops(unit) == unit.is_active

\* find_active_ancestor, lines 357-362, with the read lock held
WalkDecide ==
    /\ pc = "ready"
    /\ run.op \in PerNodeOps
    /\ run.at = "reading"
    /\ locks' = WalkRelease(locks, run.owning_unit_ptr)
    /\ IF WalkStops(units[run.owning_unit_ptr])
       THEN /\ run' = [run EXCEPT !.at = "found"]
            /\ pc' = pc
       ELSE IF units[run.owning_unit_ptr].parent = None
            THEN Panic(run.op)
            ELSE /\ run' = [run EXCEPT !.owning_unit_ptr = units[run.owning_unit_ptr].parent,
                                       !.at = "loop"]
                 /\ pc' = pc
    /\ UNCHANGED <<initializer, config, partition_info, units, last, pre, construction_vars>>

\* the line after find_active_ancestor: unit_ptr.write()
PerNodeWrite ==
    /\ pc = "ready"
    /\ run.op \in PerNodeOps
    /\ run.at = "found"
    /\ LockWriteFree(locks, run.owning_unit_ptr)
    /\ locks' = AcquireWrite(locks, run.owning_unit_ptr, MainThread)
    /\ run' = [run EXCEPT !.at = "writing"]
    /\ UNCHANGED <<initializer, config, partition_info, units, pc, last, pre, construction_vars>>

\* the unit's method, then the end of the closure drops the guard
PerNodeApply ==
    /\ pc = "ready"
    /\ run.op \in PerNodeOps
    /\ run.at = "writing"
    /\ units' = [units EXCEPT ![run.owning_unit_ptr] =
                    PerNodeEffect(run.op, @, run.dual_node, run.grow_state, run.length)]
    /\ locks' = ReleaseWrite(locks, run.owning_unit_ptr)
    /\ run' = Idle
    /\ UNCHANGED <<initializer, config, partition_info, pc, last, pre, construction_vars>>

\* ---- the fan-out methods: clear (377-386), compute_maximum_update_length
\* (422-435), grow (445-453), load_edge_modifier (455-463)

FanOutOps == {"clear", "compute_maximum_update_length", "grow", "load_edge_modifier"}

\* the body of the par_iter closure for one unit, under its write lock
FanOutUnit(op, unit, unit_idx, length) ==
    CASE op = "clear" -> ClearUnit(unit, unit_idx, config)
      [] op = "grow" -> GrowUnit(unit, length)
      [] op = "load_edge_modifier" -> LoadEdgeModifierUnit(unit)
      [] OTHER -> unit

\* the calls the primal module makes: growth within the bound last reported,
\* the edge modifier before the syndrome
FanOutCall(op, length) ==
    CASE op = "grow" ->
            /\ length > 0
            /\ \A u \in ActiveUnits(units) : \A n \in DOMAIN units[u].serial_module.nodes :
                  SerialGrow(units[u].serial_module, length).nodes[n].dual \in 0..MaxDual
      [] op = "load_edge_modifier" -> RegisteredNodes(units) = {}
      [] OTHER -> TRUE

\* the controller calls a fan-out method: thread_pool.scope, par_iter
SubmitFanOut ==
    \E op \in FanOutOps, length \in Lengths :
        /\ pc = "ready"
        /\ run = Idle
        /\ FanOutCall(op, length)
        /\ run' = [op |-> op, length |-> IF op = "grow" THEN length ELSE 0,
                   workers |-> [u \in UnitIndices |-> "queued"],
                   start |-> units]
        /\ UNCHANGED <<initializer, config, partition_info, units, pc, last, pre,
                       construction_vars, locks>>

\* a pool thread takes the task of unit u: unit_ptr.write()
WorkerLock(u) ==
    /\ pc = "ready"
    /\ run.op \in FanOutOps
    /\ run.workers[u] = "queued"
    /\ Cardinality({v \in UnitIndices : run.workers[v] = "locked"}) < PoolSize
    /\ LockWriteFree(locks, u)
    /\ locks' = AcquireWrite(locks, u, u)
    /\ run' = [run EXCEPT !.workers[u] = "locked"]
    /\ UNCHANGED <<initializer, config, partition_info, units, pc, last, pre, construction_vars>>

\* the rest of the closure for unit u; its end drops the guard
WorkerRun(u) ==
    /\ pc = "ready"
    /\ run.op \in FanOutOps
    /\ run.workers[u] = "locked"
    /\ units' = [units EXCEPT ![u] = FanOutUnit(run.op, @, u, run.length)]
    /\ locks' = ReleaseWrite(locks, u)
    /\ run' = [run EXCEPT !.workers[u] = "done"]
    /\ UNCHANGED <<initializer, config, partition_info, pc, last, pre, construction_vars>>

\* a scope that returns as soon as one task is over
JoinReadyWhenOneDone(workers) == \E u \in DOMAIN workers : workers[u] = "done"

\* for_each / collect return, and with them thread_pool.scope, when every
\* task of the par_iter is over
JoinReady(workers) == \A u \in DOMAIN workers : workers[u] = "done"

\* thread_pool.scope returns to the controller
Join ==
    /\ pc = "ready"
    /\ run.op \in FanOutOps
    /\ JoinReady(run.workers)
    /\ run' = Idle
    /\ UNCHANGED <<initializer, config, partition_info, units, pc, last, pre,
                   construction_vars, locks>>

\* ---- snapshot, lines 473-483: one unit after the other, on the caller's
\* thread

SubmitSnapshot ==
    /\ pc = "ready"
    /\ run = Idle
    /\ run' = [op |-> "snapshot", index |-> 0, at |-> "loop"]
    /\ UNCHANGED <<initializer, config, partition_info, units, pc, last, pre,
                   construction_vars, locks>>

\* line 478: unit_ptr.read_recursive()
SnapshotRead ==
    /\ pc = "ready"
    /\ run.op = "snapshot"
    /\ run.at = "loop"
    /\ run.index \in UnitIndices
    /\ LockReadFree(locks, run.index)
    /\ locks' = AcquireRead(locks, run.index, MainThread)
    /\ run' = [run EXCEPT !.at = "reading"]
    /\ UNCHANGED <<initializer, config, partition_info, units, pc, last, pre, construction_vars>>

\* lines 479-481: the unit's snapshot is merged, the guard dropped
SnapshotCombine ==
    /\ pc = "ready"
    /\ run.op = "snapshot"
    /\ run.at = "reading"
    /\ locks' = ReleaseRead(locks, run.index, MainThread)
    /\ run' = [run EXCEPT !.at = "loop", !.index = @ + 1]
    /\ UNCHANGED <<initializer, config, partition_info, units, pc, last, pre, construction_vars>>

\* line 482
SnapshotReturn ==
    /\ pc = "ready"
    /\ run.op = "snapshot"
    /\ run.at = "loop"
    /\ run.index \notin UnitIndices
    /\ run' = Idle
    /\ UNCHANGED <<initializer, config, partition_info, units, pc, last, pre,
                   construction_vars, locks>>

\* ---- fusion (spec section 4.4 and section 5): exclusive access to L, R
\* and P, the children first and the parent last

\* the order in which fusion takes the three locks
FuseLockOrder(info, parent_index) ==
    <<info.units[parent_index].children[1], info.units[parent_index].children[2], parent_index>>

\* step 4 of fusion, "publish": an ancestor walk that starts under P reaches
\* P, so the children know their parent
Publish(us, info, parent_index) ==
    [u \in DOMAIN us |->
        IF u \in {info.units[parent_index].children[1], info.units[parent_index].children[2]}
        THEN [us[u] EXCEPT !.parent = parent_index]
        ELSE us[u]]

\* the controller asks for the fusion of parent_index; an illegal fusion is
\* fatal
SubmitFuse(parent_index) ==
    /\ pc = "ready"
    /\ run = Idle
    /\ IF FuseLegal(units, partition_info, parent_index)
       THEN /\ run' = [op |-> "fuse", parent_index |-> parent_index, taken |-> 0]
            /\ pc' = pc
       ELSE Panic("fuse")
    /\ UNCHANGED <<initializer, config, partition_info, units, last, pre,
                   construction_vars, locks>>

\* step 1: the next lock of the order
FuseLock ==
    /\ pc = "ready"
    /\ run.op = "fuse"
    /\ run.taken < 3
    /\ LockWriteFree(locks, FuseLockOrder(partition_info, run.parent_index)[run.taken + 1])
    /\ locks' = AcquireWrite(locks, FuseLockOrder(partition_info, run.parent_index)[run.taken + 1],
                             MainThread)
    /\ run' = [run EXCEPT !.taken = @ + 1]
    /\ UNCHANGED <<initializer, config, partition_info, units, pc, last, pre, construction_vars>>

\* steps 2-4 under the three locks, which are then released
FuseApply ==
    /\ pc = "ready"
    /\ run.op = "fuse"
    /\ run.taken = 3
    /\ units' = Publish(FuseUnits(units, partition_info, run.parent_index),
                        partition_info, run.parent_index)
    /\ locks' = [u \in DOMAIN locks |-> IF locks[u].writer = MainThread THEN Free ELSE locks[u]]
    /\ run' = Idle
    /\ UNCHANGED <<initializer, config, partition_info, pc, last, pre, construction_vars>>

LockNext ==
    \/ SubmitPerNode
    \/ WalkRead
    \/ WalkDecide
    \/ PerNodeWrite
    \/ PerNodeApply
    \/ SubmitFanOut
    \/ \E u \in UnitIndices : WorkerLock(u)
    \/ \E u \in UnitIndices : WorkerRun(u)
    \/ Join
    \/ SubmitSnapshot
    \/ SnapshotRead
    \/ SnapshotCombine
    \/ SnapshotReturn
    \/ \E parent_index \in FusionIndices : SubmitFuse(parent_index)
    \/ FuseLock
    \/ FuseApply

\* the module after construction, with at most LockPartitions partitions
LockInit == Init /\ Len(config.partitions) <= LockPartitions

LockSpec == LockInit /\ [][LockNext]_vars

\* C27: outside fusion no thread holds the locks of two different units, and
\* find_active_ancestor has released every lock when it returns.
C27_OneUnitLockAtATime ==
    /\ run.op # "fuse" => \A t \in Threads : Cardinality(HeldBy(locks, t)) <= 1
    /\ (run.op \in PerNodeOps /\ run.at = "found") => HeldBy(locks, MainThread) = {}

\* C27 witness: an ancestor walk has gone from the owning unit to its parent
\* and holds the read lock of that parent alone.
C27_Witness ==
    /\ run.op \in PerNodeOps
    /\ run.at = "reading"
    /\ run.owning_unit_ptr # OwningUnit(run.dual_node)
    /\ HeldBy(locks, MainThread) = {run.owning_unit_ptr}

\* C28: every operation the controller starts runs to completion: none is
\* cut short by a panic (an illegal fusion aside, which is fatal by
\* contract), and while an operation is in progress some thread of it can
\* take its next step.
C28_OperationsRunToCompletion ==
    /\ run.op = "aborted" => run.aborted = "fuse"
    /\ run.op \notin {"idle", "aborted"} => ENABLED LockNext

\* C29: when a fan-out operation returns to the controller, every per-unit
\* task of it is over and has released its lock, and every unit is as the
\* task's closure leaves the unit the operation started from, which is what
\* the next operation finds.
C29_FanOutReturnsAfterEveryWorker ==
    [][(run.op \in FanOutOps /\ run'.op = "idle")
       => (/\ \A u \in UnitIndices : run.workers[u] = "done"
           /\ \A u \in UnitIndices : locks'[u] = Free
           /\ units' = [u \in UnitIndices |->
                           FanOutUnit(run.op, run.start[u], u, run.length)])]_vars

\* C29 witness: a grow is about to return, its tasks are all over, and two
\* units have been grown by it.
C29_Witness ==
    /\ run.op = "grow"
    /\ JoinReady(run.workers)
    /\ \E u, v \in UnitIndices :
          /\ u # v
          /\ units[u] # run.start[u]
          /\ units[v] # run.start[v]

\* the edges were, or are being, assigned to more than one unit
EdgesAssigned ==
    /\ pc \in {"edges", "build", "ready", "panicked"}
    /\ DOMAIN partitioned_initializers # {}

\* C31: in both edge placements, each edge in a unit's weighted_edges has
\* both endpoints in that unit's contained vertices (its owning range and the
\* vertices mirrored from its ancestors).
C31_EdgesWithinContainedVertices ==
    EdgesAssigned =>
        \A unit_index \in DOMAIN partitioned_initializers :
            \A k \in 1..Len(partitioned_initializers[unit_index].weighted_edges) :
                /\ partitioned_initializers[unit_index].weighted_edges[k][1]
                      \in contained_vertices_vec[unit_index]
                /\ partitioned_initializers[unit_index].weighted_edges[k][2]
                      \in contained_vertices_vec[unit_index]

\* C31 witness: the module is built and a unit holds an edge to a vertex it
\* does not own, mirrored from an ancestor.
C31_Witness ==
    /\ pc = "ready"
    /\ \E unit_index \in DOMAIN partitioned_initializers :
          \E k \in 1..Len(partitioned_initializers[unit_index].weighted_edges) :
              /\ ~RangeContains(partition_info.units[unit_index].owning_range,
                                partitioned_initializers[unit_index].weighted_edges[k][2])
              /\ partitioned_initializers[unit_index].weighted_edges[k][2]
                    \in contained_vertices_vec[unit_index]

\* C32: with edges_in_fusion_unit = true, a vertex v of the owning range of
\* an ancestor A of a unit U is listed in U's interface with A exactly when
\* the graph has an edge between v and a vertex of U's owning range, and no
\* interface is recorded with an empty list.
C32_InterfaceIsIncidentVertices ==
    (EdgesAssigned /\ config.edges_in_fusion_unit) =>
        \A U \in DOMAIN partitioned_initializers :
            LET interfaces == partitioned_initializers[U].interfaces
                owning_range == partition_info.units[U].owning_range
                Listed(A) == UNION {{interfaces[n][2][m][1] : m \in 1..Len(interfaces[n][2])} :
                                       n \in {n \in 1..Len(interfaces) : interfaces[n][1] = A}}
                Incident(v) ==
                    \E k \in 1..Len(initializer.weighted_edges) :
                        \/ /\ initializer.weighted_edges[k][1] = v
                           /\ RangeContains(owning_range, initializer.weighted_edges[k][2])
                        \/ /\ initializer.weighted_edges[k][2] = v
                           /\ RangeContains(owning_range, initializer.weighted_edges[k][1])
            IN  /\ \A A \in Ancestors(partition_info, U) :
                      \A v \in RangeIter(partition_info.units[A].owning_range) :
                          (v \in Listed(A)) <=> Incident(v)
                /\ \A n \in 1..Len(interfaces) :
                      /\ interfaces[n][1] \in Ancestors(partition_info, U)
                      /\ Len(interfaces[n][2]) > 0

\* C32 witness: fusion-unit placement, and a leaf mirrors a vertex of its
\* parent while a vertex of the root, which has an edge to that mirrored
\* vertex and none to the leaf's own vertices, is left out.
C32_Witness ==
    /\ EdgesAssigned
    /\ config.edges_in_fusion_unit
    /\ \E U \in DOMAIN partitioned_initializers :
          /\ Len(partitioned_initializers[U].interfaces) = 1
          /\ \E v \in contained_vertices_vec[U], w \in 0..(VertexNum - 1) :
                /\ ~RangeContains(partition_info.units[U].owning_range, v)
                /\ w \notin contained_vertices_vec[U]
                /\ OwnerOf(w) \in Ancestors(partition_info, OwnerOf(v))
                /\ w \in Peers(initializer, v)

\* C33: with edges_in_fusion_unit = false, the walk of a unit U mirrors all
\* vertices of an ancestor's owning range when one of them has an edge to a
\* vertex U contains at that point (its own vertices and those mirrored from
\* nearer ancestors), and none of them otherwise; what U contains only grows.
C33_AllOrNoneMirrored ==
    (EdgesAssigned /\ ~config.edges_in_fusion_unit) =>
        \A U \in DOMAIN contained_vertices_vec :
            LET owning(A) == RangeIter(partition_info.units[A].owning_range)
                Nearer(A) == {B \in Ancestors(partition_info, U) :
                                 A \in Ancestors(partition_info, B)}
                ContainedAt(A) ==
                    owning(U) \cup UNION {owning(B) \cap contained_vertices_vec[U] : B \in Nearer(A)}
                Incident(A) ==
                    \E k \in 1..Len(initializer.weighted_edges) :
                        \/ /\ initializer.weighted_edges[k][1] \in owning(A)
                           /\ initializer.weighted_edges[k][2] \in ContainedAt(A)
                        \/ /\ initializer.weighted_edges[k][2] \in owning(A)
                           /\ initializer.weighted_edges[k][1] \in ContainedAt(A)
            IN  /\ owning(U) \subseteq contained_vertices_vec[U]
                /\ contained_vertices_vec[U] \subseteq
                      owning(U) \cup UNION {owning(A) : A \in Ancestors(partition_info, U)}
                /\ \A A \in Ancestors(partition_info, U) :
                      IF Incident(A)
                      THEN owning(A) \subseteq contained_vertices_vec[U]
                      ELSE owning(A) \cap contained_vertices_vec[U] = {}

\* C33 witness: without fusion-unit edges, a leaf has mirrored its parent's
\* vertex and then a vertex of the root that has an edge to the mirrored
\* vertex and none to the leaf's own vertices.
C33_Witness ==
    /\ EdgesAssigned
    /\ ~config.edges_in_fusion_unit
    /\ \E U \in DOMAIN contained_vertices_vec :
          \E v \in contained_vertices_vec[U], w \in contained_vertices_vec[U] :
              /\ ~RangeContains(partition_info.units[U].owning_range, v)
              /\ OwnerOf(w) \in Ancestors(partition_info, OwnerOf(v))
              /\ w \in Peers(initializer, v)
              /\ \A peer_index \in Peers(initializer, w) :
                    ~RangeContains(partition_info.units[U].owning_range, peer_index)

\* C34: whatever the order in which the pool builds the units, the module
\* returned is the same function of the initializer and the configuration:
\* units[k] is the unit of index k, over partitioned initializer k; each
\* unit's interfaces are listed nearest ancestor first, and each unit's edges
\* in the relative order of the input edge list.
C34_PlannerOutputIndependentOfSchedule ==
    (pc = "ready" /\ Cardinality(DOMAIN partition_info.units) > 1) =>
        /\ units = NewUnits(partition_info)
        /\ DOMAIN units = DOMAIN partitioned_initializers
        /\ \A k \in DOMAIN units :
              LET interfaces == partitioned_initializers[k].interfaces
                  weighted_edges == partitioned_initializers[k].weighted_edges
                  input == initializer.weighted_edges
              IN  /\ units[k].owning_range = partitioned_initializers[k].owning_range
                  /\ \A n \in 1..Len(interfaces), m \in 1..Len(interfaces) :
                        n < m => interfaces[m][1] \in Ancestors(partition_info, interfaces[n][1])
                  /\ \E at \in [1..Len(weighted_edges) -> 1..Len(input)] :
                        /\ \A n \in 1..Len(weighted_edges) : input[at[n]] = weighted_edges[n]
                        /\ \A n \in 1..Len(weighted_edges), m \in 1..Len(weighted_edges) :
                              n < m => at[n] < at[m]

\* C34 witness: a module of five units is built, and one of its units has
\* two interfaces and holds two different edges.
C34_Witness ==
    /\ pc = "ready"
    /\ Cardinality(DOMAIN units) = 5
    /\ \E k \in DOMAIN partitioned_initializers :
          /\ Len(partitioned_initializers[k].interfaces) = 2
          /\ Len(partitioned_initializers[k].weighted_edges) = 2
          /\ partitioned_initializers[k].weighted_edges[1]
                # partitioned_initializers[k].weighted_edges[2]

\* C35: an operation other than clear and fusion (a per-node operation,
\* compute_maximum_update_length, grow, load_edge_modifier, snapshot) leaves
\* is_active, is_fused, parent and children of every unit as they were.
C35_OnlyClearAndFuseChangeFlags ==
    [][last'.op \notin {"clear", "fuse"} =>
        /\ DOMAIN units' = DOMAIN units
        /\ \A u \in UnitIndices :
              /\ units'[u].is_active = units[u].is_active
              /\ units'[u].is_fused = units[u].is_fused
              /\ units'[u].parent = units[u].parent
              /\ units'[u].children = units[u].children]_vars

\* C35 witness: after a fusion, a grow has raised a dual variable and an
\* inactive, fused unit is still inactive and fused.
C35_Witness ==
    /\ last.op = "grow"
    /\ pc = "ready"
    /\ \E u \in UnitIndices : units[u].is_fused /\ ~units[u].is_active
    /\ \E u \in UnitIndices : \E n \in DOMAIN units[u].serial_module.nodes :
          units[u].serial_module.nodes[n].dual > 0

\* C36: from the moment find_active_ancestor has selected a unit until the
\* per-node operation has delegated under that unit's write lock, the unit is
\* active: nothing runs between the check and the write lock.
C36_SelectedUnitStillActive ==
    (run.op \in PerNodeOps /\ run.at \in {"found", "writing"}) =>
        /\ units[run.owning_unit_ptr].is_active
        /\ run.at = "writing" => locks[run.owning_unit_ptr].writer = MainThread

\* C36 witness: after a fusion, a per-node operation whose node belongs to a
\* fused child holds the write lock of the parent it walked to.
C36_Witness ==
    /\ run.op \in PerNodeOps
    /\ run.at = "writing"
    /\ run.owning_unit_ptr # OwningUnit(run.dual_node)
    /\ ~units[OwningUnit(run.dual_node)].is_active
    /\ locks[run.owning_unit_ptr].writer = MainThread

\* C37: with edges_in_fusion_unit = false, once construction has passed the
\* edge loop every input edge is in the edge list of at least one unit: no
\* edge is dropped from all units. (With one partition the only unit is built
\* over the whole graph, lines 213-218, and there is no edge loop.)
C37_NoEdgeDropped ==
    (pc \in {"build", "ready"} /\ ~config.edges_in_fusion_unit /\ Len(config.partitions) > 1) =>
        \A k \in 1..Len(initializer.weighted_edges) :
            UnitsHolding(initializer.weighted_edges[k]) # {}

====
